---- MODULE Spec2Model ----
(***************************************************************************)
(* A model of the llmix configuration loader: the LRU+TTL local cache      *)
(* (src/src/lru-cache.ts), the validators and the file loader              *)
(* (src/src/yaml-loader.ts) and the three-tier loader with its cascade     *)
(* (src/src/config-loader.ts).                                             *)
(*                                                                         *)
(* Names are TLA+ strings; a canonical identifier is built by string       *)
(* concatenation exactly as buildConfigId does.  An asynchronous method is *)
(* cut at its awaits: one action per stretch of code between two           *)
(* suspension points.                                                      *)
(***************************************************************************)
EXTENDS Integers, Sequences, FiniteSets, TLC

(***************************************************************************)
(* Bounds of the model.                                                    *)
(***************************************************************************)
\* Number of loadConfig calls of one behaviour.
MaxCalls == 2
\* Capacity of the local cache in the cache specification (constructor argument).
MaxSize == 2
\* Number of cache operations of one behaviour of the cache specification.
MaxOps == 5
\* How many times the surroundings of a loader act on it: connection events,
\* writes of other clients to the shared tier, changes of files.
MaxEnv == 1
\* How many times init() is called on a loader.
MaxInits == 2

(***************************************************************************)
(* Program constants.                                                      *)
(***************************************************************************)
MIN_VERSION == 1
MAX_VERSION == 9999
MAX_NAME_LENGTH == 64
MAX_WARNED_CONFIG_IDS == 1000
REDIS_KEY_PREFIX == "llm:"
\* config.redisTtlSeconds of the modelled loader, which is built without one.
DEFAULT_REDIS_TTL_SECONDS == 86400
DEFAULT_REDIS_MAX_RETRIES == 3
EXPERIMENT_KEY_PREFIX == "experiment:llm:"
DEFAULT_SCOPE == "default"
\* The configured root directory.
ConfigDir == "/cfg"
\* cacheTtlSeconds * 1000 of the modelled loader, in clock ticks.
TtlMs == 2

(***************************************************************************)
(* Strings.                                                                *)
(***************************************************************************)
Lower == {"a","b","c","d","e","f","g","h","i","j","k","l","m",
          "n","o","p","q","r","s","t","u","v","w","x","y","z"}
Upper == {"A","B","C","D","E","F","G","H","I","J","K","L","M",
          "N","O","P","Q","R","S","T","U","V","W","X","Y","Z"}
Digit == {"0","1","2","3","4","5","6","7","8","9"}

\* String.prototype.includes
Includes(s, sub) ==
    \E i \in 1..(Len(s) - Len(sub) + 1) : SubSeq(s, i, i + Len(sub) - 1) = sub

\* String.prototype.endsWith
EndsWith(s, suffix) ==
    /\ Len(s) >= Len(suffix)
    /\ SubSeq(s, Len(s) - Len(suffix) + 1, Len(s)) = suffix

\* Every character of s from position from on is in chars.
AllIn(s, from, chars) == \A i \in from..Len(s) : SubSeq(s, i, i) \in chars

StartsWith(s, prefix) ==
    /\ Len(s) >= Len(prefix)
    /\ SubSeq(s, 1, Len(prefix)) = prefix

\* /^(_default|[a-z][a-z0-9_]{0,63})$/
VALID_MODULE_PATTERN(s) ==
    \/ s = "_default"
    \/ /\ Len(s) >= 1
       /\ Len(s) <= 64
       /\ SubSeq(s, 1, 1) \in Lower
       /\ AllIn(s, 2, Lower \cup Digit \cup {"_"})

\* /^(_base[a-z0-9_]*|[a-z][a-z0-9_]{0,63})$/
VALID_PROFILE_PATTERN(s) ==
    \/ /\ StartsWith(s, "_base")
       /\ AllIn(s, 6, Lower \cup Digit \cup {"_"})
    \/ /\ Len(s) >= 1
       /\ Len(s) <= 64
       /\ SubSeq(s, 1, 1) \in Lower
       /\ AllIn(s, 2, Lower \cup Digit \cup {"_"})

\* /^(_default|[a-z][a-z0-9_-]{0,63})$/
VALID_SCOPE_PATTERN(s) ==
    \/ s = "_default"
    \/ /\ Len(s) >= 1
       /\ Len(s) <= 64
       /\ SubSeq(s, 1, 1) \in Lower
       /\ AllIn(s, 2, Lower \cup Digit \cup {"_", "-"})

\* /^[a-zA-Z0-9_-]{1,64}$/
VALID_USER_ID_PATTERN(s) ==
    /\ Len(s) >= 1
    /\ Len(s) <= 64
    /\ AllIn(s, 1, Lower \cup Upper \cup Digit \cup {"_", "-"})

\* The grave accent cannot be written inside a TLA+ string: the character "^",
\* which no pattern of the program accepts either, stands for it.
GraveAccent == "^"

dangerousChars == {"/", "\\", "..", "~", "$", GraveAccent}

(***************************************************************************)
(* Validators.  A validator that throws is modelled by the name of the     *)
(* error class it throws, "ok" when it returns.                            *)
(***************************************************************************)
validateName(s, matches) ==
    IF s = "" THEN "Error"
    ELSE IF Len(s) > MAX_NAME_LENGTH THEN "Error"
    ELSE IF \E d \in dangerousChars : Includes(s, d) THEN "SecurityError"
    ELSE IF ~matches THEN "Error"
    ELSE "ok"

validateModule(module) == validateName(module, VALID_MODULE_PATTERN(module))

validateProfile(profile) == validateName(profile, VALID_PROFILE_PATTERN(profile))

validateScope(scope) == validateName(scope, VALID_SCOPE_PATTERN(scope))

\* validateUserId without its last test, the pattern.
validateUserIdNoPattern(userId) ==
    IF userId = "" THEN FALSE
    ELSE IF Len(userId) > MAX_NAME_LENGTH THEN FALSE
    ELSE IF \E d \in dangerousChars : Includes(userId, d) THEN FALSE
    ELSE TRUE

validateUserId(userId) ==
    IF userId = "" THEN FALSE
    ELSE IF Len(userId) > MAX_NAME_LENGTH THEN FALSE
    ELSE IF \E d \in dangerousChars : Includes(userId, d) THEN FALSE
    ELSE VALID_USER_ID_PATTERN(userId)

\* Versions of the model are integers: Number.isInteger holds of each.
validateVersion(version) ==
    IF version < MIN_VERSION \/ version > MAX_VERSION THEN "Error" ELSE "ok"

(***************************************************************************)
(* Files.  The file system maps a path to what a read of it meets.         *)
(***************************************************************************)
\* "absent": ENOENT; "eacces": EACCES; "eisdir": another read error;
\* "escape": a symlink leaving the root; "badyaml": the parse fails;
\* "badschema": the strict schema rejects it; "ok": a valid document.
FileStatus == {"absent", "eacces", "eisdir", "escape", "badyaml", "badschema", "ok"}

buildConfigFilePath(configDir, module, profile, version) ==
    configDir \o "/" \o module \o "/" \o profile \o ".v" \o ToString(version) \o ".yaml"

\* The outcome of a call: a value or the class of the error thrown.
Ok(v) == [ok |-> TRUE, err |-> "", value |-> v]
Err(e) == [ok |-> FALSE, err |-> e, value |-> ""]

\* verifyPathContainmentAsync on a path built from validated segments: only a
\* symlink can take it out of the root.
verifyPathContainmentAsync(fs, path) ==
    IF path \in DOMAIN fs /\ fs[path] = "escape" THEN "SecurityError" ELSE "ok"

\* A path the file system has no entry for does not exist.
StatusOf(fs, path) == IF path \in DOMAIN fs THEN fs[path] ELSE "absent"

\* What a document shows of a number that is not finite (.inf, .nan), as the
\* YAML parser yields it and as JSON.stringify writes it.
NonFiniteMark == "#NaN"
NullMark == "#null"

\* The document of a valid file is identified by the path it was read from.
\* Status "nonfinite" is a valid document holding a number that is not finite
\* in a field the schema leaves open (prediction: z.record(z.string(),
\* z.unknown())).
loadConfigFromFile(fs, configDir, module, profile, version) ==
    IF validateModule(module) # "ok" THEN Err(validateModule(module))
    ELSE IF validateProfile(profile) # "ok" THEN Err(validateProfile(profile))
    ELSE IF validateVersion(version) # "ok" THEN Err(validateVersion(version))
    ELSE LET filePath == buildConfigFilePath(configDir, module, profile, version)
             st == StatusOf(fs, filePath)
         IN  IF verifyPathContainmentAsync(fs, filePath) # "ok" THEN Err("SecurityError")
             ELSE IF st = "absent" THEN Err("ConfigNotFoundError")
             ELSE IF st = "eacces" THEN Err("ConfigNotFoundError")
             ELSE IF st = "eisdir" THEN Err("FsError")
             ELSE IF st = "badyaml" THEN Err("InvalidConfigError")
             ELSE IF st = "badschema" THEN Err("InvalidConfigError")
             ELSE IF st = "nonfinite" THEN Ok(filePath \o NonFiniteMark)
             ELSE Ok(filePath)

\* Whether loadConfigFromFile gets as far as readFile.
ReadsFile(fs, configDir, module, profile, version) ==
    /\ validateModule(module) = "ok"
    /\ validateProfile(profile) = "ok"
    /\ validateVersion(version) = "ok"
    /\ verifyPathContainmentAsync(fs, buildConfigFilePath(configDir, module, profile, version)) = "ok"

(***************************************************************************)
(* Canonical identifiers and the cascade.                                  *)
(***************************************************************************)
buildConfigId(scope, module, userId, profile, version) ==
    scope \o ":" \o module \o ":" \o userId \o ":" \o profile \o ":v" \o ToString(version)

buildRedisKey(configId) == REDIS_KEY_PREFIX \o configId

buildExperimentKey(module, profile) == EXPERIMENT_KEY_PREFIX \o module \o ":" \o profile

CascadeStep(scope, module, userId, profile, version) ==
    [scope |-> scope, module |-> module, userId |-> userId,
     profile |-> profile, version |-> version]

StepId(s) == buildConfigId(s.scope, s.module, s.userId, s.profile, s.version)

\* generateCascadeSteps with the guard of the global level on the module
\* instead of the scope.
generateCascadeStepsModuleGuard(scope, module, userId, profile, version) ==
    LET s1 == IF userId # "_"
              THEN <<CascadeStep(scope, module, userId, profile, version)>>
              ELSE <<>>
        s2 == Append(s1, CascadeStep(scope, module, "_", profile, version))
        s3 == IF module # "_default"
              THEN Append(s2, CascadeStep(scope, "_default", "_", profile, version))
              ELSE s2
        s4 == IF module # "_default"
              THEN Append(s3, CascadeStep("_default", "_default", "_", profile, version))
              ELSE s3
        s5 == IF profile # "_base" \/ version # 1
              THEN Append(s4, CascadeStep("_default", "_default", "_", "_base", 1))
              ELSE s4
    IN  s5

\* generateCascadeSteps without the base fallback.
generateCascadeStepsNoBase(scope, module, userId, profile, version) ==
    LET s1 == IF userId # "_"
              THEN <<CascadeStep(scope, module, userId, profile, version)>>
              ELSE <<>>
        s2 == Append(s1, CascadeStep(scope, module, "_", profile, version))
        s3 == IF module # "_default"
              THEN Append(s2, CascadeStep(scope, "_default", "_", profile, version))
              ELSE s2
        s4 == IF scope # "_default"
              THEN Append(s3, CascadeStep("_default", "_default", "_", profile, version))
              ELSE s3
    IN  s4

generateCascadeSteps(scope, module, userId, profile, version) ==
    LET s1 == IF userId # "_"
              THEN <<CascadeStep(scope, module, userId, profile, version)>>
              ELSE <<>>
        s2 == Append(s1, CascadeStep(scope, module, "_", profile, version))
        s3 == IF module # "_default"
              THEN Append(s2, CascadeStep(scope, "_default", "_", profile, version))
              ELSE s2
        s4 == IF scope # "_default"
              THEN Append(s3, CascadeStep("_default", "_default", "_", profile, version))
              ELSE s3
        s5 == IF profile # "_base" \/ version # 1
              THEN Append(s4, CascadeStep("_default", "_default", "_", "_base", 1))
              ELSE s4
    IN  s5

(***************************************************************************)
(* The local cache: a Map in insertion order, oldest entry first.          *)
(***************************************************************************)
CacheEntry(key, value, timestamp) ==
    [key |-> key, value |-> value, timestamp |-> timestamp]

\* Map.has
CacheHas(cache, key) == \E i \in 1..Len(cache) : cache[i].key = key

\* The entry Map.get returns for a key that is present.
CacheEntryOf(cache, key) ==
    cache[CHOOSE i \in 1..Len(cache) : cache[i].key = key]

\* Map.delete
CacheDelete(cache, key) == SelectSeq(cache, LAMBDA e : e.key # key)

\* The truth value JavaScript gives a string in a condition.
Truthy(str) == str # ""

\* get with an entry expiring as soon as its age reaches the TTL.
LRUGetExpiresAtTtl(cache, key, t, ttlMs) ==
    IF ~CacheHas(cache, key)
    THEN [cache |-> cache, hit |-> FALSE, value |-> <<>>]
    ELSE LET entry == CacheEntryOf(cache, key)
             age == t - entry.timestamp
         IN  IF age >= ttlMs
             THEN [cache |-> CacheDelete(cache, key), hit |-> FALSE, value |-> <<>>]
             ELSE [cache |-> Append(CacheDelete(cache, key), entry),
                   hit |-> TRUE, value |-> entry.value]

\* get with a hit stamping the entry anew.
LRUGetRefreshes(cache, key, t, ttlMs) ==
    IF ~CacheHas(cache, key)
    THEN [cache |-> cache, hit |-> FALSE, value |-> <<>>]
    ELSE LET entry == CacheEntryOf(cache, key)
             age == t - entry.timestamp
         IN  IF age > ttlMs
             THEN [cache |-> CacheDelete(cache, key), hit |-> FALSE, value |-> <<>>]
             ELSE [cache |-> Append(CacheDelete(cache, key), CacheEntry(key, entry.value, t)),
                   hit |-> TRUE, value |-> entry.value]

\* LRUCache.get: the cache, whether a value is returned, and that value.
LRUGet(cache, key, t, ttlMs) ==
    IF ~CacheHas(cache, key)
    THEN [cache |-> cache, hit |-> FALSE, value |-> <<>>]
    ELSE LET entry == CacheEntryOf(cache, key)
             age == t - entry.timestamp
         IN  IF age > ttlMs
             THEN [cache |-> CacheDelete(cache, key), hit |-> FALSE, value |-> <<>>]
             ELSE [cache |-> Append(CacheDelete(cache, key), entry),
                   hit |-> TRUE, value |-> entry.value]

\* LRUCache.set
LRUSet(cache, key, value, t, maxSize) ==
    LET dropped == IF CacheHas(cache, key) THEN CacheDelete(cache, key) ELSE cache
        added == Append(dropped, CacheEntry(key, value, t))
    IN  IF Len(added) > maxSize
        THEN LET oldestKey == added[1].key
             IN  IF Truthy(oldestKey) THEN CacheDelete(added, oldestKey) ELSE added
        ELSE added

\* LRUCache.has: whether the key is there and not expired; an expired entry
\* is removed.
LRUHas(cache, key, t, ttlMs) ==
    IF ~CacheHas(cache, key)
    THEN [cache |-> cache, has |-> FALSE]
    ELSE IF t - CacheEntryOf(cache, key).timestamp > ttlMs
    THEN [cache |-> CacheDelete(cache, key), has |-> FALSE]
    ELSE [cache |-> cache, has |-> TRUE]

\* LRUCache.delete: Map.delete and what it returns.
LRUDelete(cache, key) ==
    [cache |-> CacheDelete(cache, key), existed |-> CacheHas(cache, key)]

\* LRUCache.clear
LRUClear(cache) == << >>

\* String.prototype.split(":"): the segments of s from position i on, cur
\* being the segment under way.
RECURSIVE SplitFrom(_, _, _)
SplitFrom(s, i, cur) ==
    IF i > Len(s) THEN <<cur>>
    ELSE IF SubSeq(s, i, i) = ":" THEN <<cur>> \o SplitFrom(s, i + 1, "")
    ELSE SplitFrom(s, i + 1, cur \o SubSeq(s, i, i))

Split(s) == SplitFrom(s, 1, "")

\* The matching that wants as many segments in the key as in the pattern.
PatternMatchesSameLength(patternParts, keyParts) ==
    /\ Len(patternParts) = Len(keyParts)
    /\ \A i \in 1..Len(patternParts) :
          patternParts[i] = "*" \/ keyParts[i] = patternParts[i]

\* The matching that lets a wildcard stand for a missing segment.
PatternMatchesOptional(patternParts, keyParts) ==
    \A i \in 1..Len(patternParts) :
        \/ patternParts[i] = "*"
        \/ i <= Len(keyParts) /\ keyParts[i] = patternParts[i]

\* The inner loop of invalidate: every part of the pattern meets a part of
\* the key, and is "*" or equal to it.
PatternMatches(patternParts, keyParts) ==
    \A i \in 1..Len(patternParts) :
        /\ i <= Len(keyParts)
        /\ patternParts[i] = "*" \/ keyParts[i] = patternParts[i]

\* LRUCache.invalidate: the cache without the entries matched, and their number.
LRUInvalidate(cache, pattern) ==
    IF pattern = "*"
    THEN [cache |-> << >>, count |-> Len(cache)]
    ELSE LET patternParts == Split(pattern)
             kept == SelectSeq(cache, LAMBDA e : ~PatternMatches(patternParts, Split(e.key)))
         IN  [cache |-> kept, count |-> Len(cache) - Len(kept)]

\* The hit rate as the quotient num / den (den = 1 where the code reports 0).
Rate(num, den) == [num |-> num, den |-> den]

\* The hit rate without its factor of 100.
hitRateFraction(h, m) == IF h + m > 0 THEN Rate(h, h + m) ELSE Rate(0, 1)

\* getStats: hitRate = (hits / total) * 100, 0 when total is 0.
hitRate(h, m) == IF h + m > 0 THEN Rate(h * 100, h + m) ELSE Rate(0, 1)

\* LRUCache.getStats
LRUGetStats(cache, max, h, m) ==
    [size |-> Len(cache), maxSize |-> max, hits |-> h, misses |-> m,
     hitRate |-> hitRate(h, m)]

CacheKeys(cache) == {cache[i].key : i \in 1..Len(cache)}

(***************************************************************************)
(* State.                                                                  *)
(***************************************************************************)
VARIABLES
    files,           \* path -> what a read of the file meets
    lru,             \* LRUCache.cache
    hits,            \* LRUCache.hits
    misses,          \* LRUCache.misses
    now,             \* Date.now()
    touched,         \* history: the keys set or returned by get, last touched last
    expired,         \* history: a get has met an entry older than the TTL
    ops,             \* history: number of direct cache operations, or of acts of the surroundings
    warnedConfigIds, \* LLMConfigLoader.warnedConfigIds, in insertion order
    warnLog,         \* the fallback warnings the logger received (requested ids)
    redisUrl,        \* whether config.redisUrl is set
    redisClient,     \* whether LLMConfigLoader.redisClient holds a client
    redisAvailable,  \* LLMConfigLoader.redisAvailable
    conn,            \* whether a client object with its event handlers exists
    initialized,     \* LLMConfigLoader.initialized
    initPc,          \* where the init() call in progress stands
    store,           \* the shared tier: key -> content
    calls,           \* the loadConfig calls: their position and locals
    maxSize,         \* LRUCache.maxSize
    initCalls,       \* the init() calls made while others are in flight: where each is, and what it has done
    retry,           \* the reconnection of the client: config.redisMaxRetries, the calls of retryStrategy since the connection was lost
    inits,           \* history: the outcome of each init() and close() call made
    lastOp,          \* history: the last direct cache operation, what it returned and how many entries it removed
    getCalls,        \* history: get calls since construction or the last resetStats
    getValues        \* history: those of them that returned a value

cacheVars == <<lru, hits, misses, now>>
cacheHistory == <<touched, expired, ops>>
cacheAudit == <<lastOp, getCalls, getValues>>
engineVars == <<warnedConfigIds, warnLog, redisUrl, redisClient, redisAvailable,
                conn, initialized, initPc, store, calls>>
vars == <<files, lru, hits, misses, now, touched, expired, ops,
          warnedConfigIds, warnLog, redisUrl, redisClient, redisAvailable,
          conn, initialized, initPc, store, calls,
          maxSize, retry, initCalls, inits, lastOp, getCalls, getValues>>

\* The client before any loss of its connection.
NoRetry == [state |-> "up", maxRetries |-> DEFAULT_REDIS_MAX_RETRIES, times |-> 0,
            delays |-> << >>, losses |-> 0]

\* No direct cache operation yet.
NoStats == [size |-> 0, maxSize |-> 0, hits |-> 0, misses |-> 0, hitRate |-> [num |-> 0, den |-> 1]]
NoOp == [op |-> "none", arg |-> "", hit |-> FALSE, value |-> "", count |-> 0, stats |-> NoStats]

\* The key moved to the end of the touch history.
Touch(history, key) == Append(SelectSeq(history, LAMBDA k : k # key), key)

(***************************************************************************)
(* JSON values and the content of the shared tier.                         *)
(***************************************************************************)
\* A field of a parsed object: its typeof, and its value where it has one.
Field(t, b, n, int) == [t |-> t, b |-> b, n |-> n, int |-> int]
UndefinedField == Field("undefined", FALSE, 0, FALSE)
BooleanField(b) == Field("boolean", b, 0, FALSE)
\* An integral number.
IntegerField(n) == Field("number", FALSE, n, TRUE)
\* A number with a fractional part, n its integral part.
FractionField(n) == Field("number", FALSE, n, FALSE)
StringField == Field("string", FALSE, 0, FALSE)

JsonNull == [kind |-> "null"]
\* A JSON number or string on its own: typeof is not "object".
JsonScalar == [kind |-> "scalar"]
JsonObject(enabled, version, enabledAt) ==
    [kind |-> "object", enabled |-> enabled, version |-> version, enabledAt |-> enabledAt]
\* A ResolvedLLMConfig: the document (by the file it came from) and the
\* coordinate resolveWithCascade gives it.
ResolvedConfig(doc, configId, scope, module, profile, version) ==
    [kind |-> "config", doc |-> doc, configId |-> configId, scope |-> scope,
     module |-> module, profile |-> profile, version |-> version]

\* parsed.<name> of a parsed JSON value
FieldOf(json, name) ==
    IF json.kind = "object" /\ name \in DOMAIN json THEN json[name] ELSE UndefinedField

\* A string held by the shared tier or by the local cache: empty, not JSON
\* ("garbage"), or the text of a JSON value.
EmptyText == [text |-> "empty", json |-> JsonNull]
GarbageText == [text |-> "garbage", json |-> JsonNull]
\* JSON.stringify of a document: a number that is not finite is written null.
SerializeDoc(doc) ==
    IF EndsWith(doc, NonFiniteMark)
    THEN SubSeq(doc, 1, Len(doc) - Len(NonFiniteMark)) \o NullMark
    ELSE doc
\* The value JSON.parse gives back for what JSON.stringify wrote.
Serialized(json) ==
    IF json.kind = "config" THEN [json EXCEPT !.doc = SerializeDoc(@)] ELSE json
\* JSON.stringify
JsonStringify(json) == [text |-> "json", json |-> Serialized(json)]
\* JSON.parse: the value, or a SyntaxError thrown.
JsonParse(str) ==
    IF str.text = "json"
    THEN [ok |-> TRUE, json |-> str.json]
    ELSE [ok |-> FALSE, json |-> JsonNull]

\* redisClient.get: the string under the key, found = FALSE for null.
RedisGet(st, key) ==
    IF key \in DOMAIN st
    THEN [found |-> TRUE, str |-> st[key]]
    ELSE [found |-> FALSE, str |-> EmptyText]

\* A setex that the store loses.
RedisSetexLost(st, key, str) == st

\* redisClient.setex, as the store sees it.
RedisSetex(st, key, str) ==
    [k \in DOMAIN st \cup {key} |-> IF k = key THEN str ELSE st[k]]

\* The content of a reply in a condition: null and "" are falsy.
TruthyReply(reply) == reply.found /\ reply.str.text # "empty"

\* The experiment returned whether it is enabled or not.
ExperimentOfAnyFlag(reply, failed) ==
    LET none == [found |-> FALSE, version |-> 0]
    IN  IF failed THEN none
        ELSE IF ~TruthyReply(reply) THEN none
        ELSE LET p == JsonParse(reply.str)
                 parsed == p.json
                 enabled == FieldOf(parsed, "enabled")
                 version == FieldOf(parsed, "version")
                 enabledAt == FieldOf(parsed, "enabledAt")
             IN  IF ~p.ok THEN none
                 ELSE IF \/ parsed.kind \notin {"object", "config", "null"}
                         \/ parsed.kind = "null"
                         \/ enabled.t # "boolean"
                         \/ ~(version.t = "number" /\ version.int)
                         \/ version.n < 1
                         \/ enabledAt.t # "string"
                      THEN none
                 ELSE [found |-> TRUE, version |-> version.n]

\* The part of getExperimentConfig after the get: the experiment, or null
\* (found = FALSE).  failed: the get threw.
ExperimentOf(reply, failed) ==
    LET none == [found |-> FALSE, version |-> 0]
    IN  IF failed THEN none
        ELSE IF ~TruthyReply(reply) THEN none
        ELSE LET p == JsonParse(reply.str)
                 parsed == p.json
                 enabled == FieldOf(parsed, "enabled")
                 version == FieldOf(parsed, "version")
                 enabledAt == FieldOf(parsed, "enabledAt")
             IN  IF ~p.ok THEN none
                 ELSE IF \/ parsed.kind \notin {"object", "config", "null"}
                         \/ parsed.kind = "null"
                         \/ enabled.t # "boolean"
                         \/ ~(version.t = "number" /\ version.int)
                         \/ version.n < 1
                         \/ enabledAt.t # "string"
                      THEN none
                 ELSE IF ~enabled.b THEN none
                 ELSE [found |-> TRUE, version |-> version.n]

(***************************************************************************)
(* The rate-limited fallback warning.                                      *)
(***************************************************************************)
InSeq(seq, x) == \E i \in 1..Len(seq) : seq[i] = x

\* logFallbackWarning: the warned set and whether the logger is called.
logFallbackWarning(warned, configId) ==
    IF InSeq(warned, configId)
    THEN [warned |-> warned, emitted |-> FALSE]
    ELSE LET kept == IF Len(warned) >= MAX_WARNED_CONFIG_IDS
                     THEN IF Truthy(warned[1]) THEN Tail(warned) ELSE warned
                     ELSE warned
         IN  [warned |-> Append(kept, configId), emitted |-> TRUE]

\* A warning for every winning step other than the requested coordinate.
FallbackWarningsAnyLevel(warned, originalConfigId, profile, step) ==
    LET w == IF StepId(step) # originalConfigId
             THEN logFallbackWarning(warned, originalConfigId)
             ELSE [warned |-> warned, emitted |-> FALSE]
    IN  [warned |-> w.warned,
         log |-> IF w.emitted THEN <<originalConfigId>> ELSE << >>]

\* The warnings of resolveWithCascade for a winning step.
FallbackWarnings(warned, originalConfigId, profile, step) ==
    LET w1 == IF step.profile = "_base" /\ profile # "_base"
              THEN logFallbackWarning(warned, originalConfigId)
              ELSE [warned |-> warned, emitted |-> FALSE]
        baseProfile == SubSeq(profile, 1, Len(profile) - 4)
        w2 == IF EndsWith(profile, "_low") /\ step.profile # profile
                 /\ step.profile = baseProfile
              THEN logFallbackWarning(w1.warned, originalConfigId)
              ELSE [warned |-> w1.warned, emitted |-> FALSE]
    IN  [warned |-> w2.warned,
         log |-> (IF w1.emitted THEN <<originalConfigId>> ELSE << >>)
                 \o (IF w2.emitted THEN <<originalConfigId>> ELSE << >>)]

(***************************************************************************)
(* loadConfig.  A call is a record of its position (pc) and its locals;    *)
(* trace, served and the fields after them are history, not program state. *)
(***************************************************************************)
Calls == 1..MaxCalls

\* LoadConfigOptions: given names the optional members that are present.
Options(given, scope, module, userId, profile, version, forceRefresh) ==
    [given |-> given, scope |-> scope, module |-> module, userId |-> userId,
     profile |-> profile, version |-> version, forceRefresh |-> forceRefresh]

NoOut == [kind |-> "none", err |-> "", msg |-> "", value |-> JsonNull]
Returned(json) == [kind |-> "value", err |-> "", msg |-> "", value |-> json]
Thrown(err, msg) == [kind |-> "error", err |-> err, msg |-> msg, value |-> JsonNull]

BasePath == buildConfigFilePath(ConfigDir, "_default", "_base", 1)
\* The base file is there and can be read (whatever it contains).
BaseReadable(fs) == StatusOf(fs, BasePath) \notin {"absent", "eacces"}
\* Every file is either a valid document or absent, the base file valid.
FilesSound(fs) ==
    /\ StatusOf(fs, BasePath) = "ok"
    /\ \A p \in DOMAIN fs : fs[p] \in {"ok", "absent"}

IdleCall ==
    [pc |-> "idle",
     scope |-> "", module |-> "", userId |-> "", profile |-> "",
     version |-> 0, forceRefresh |-> FALSE,
     expIssued |-> FALSE, configId |-> "", originalConfigId |-> "",
     steps |-> << >>, idx |-> 0, result |-> JsonNull, out |-> NoOut,
     trace |-> << >>, served |-> "",
     requestedVersion |-> 0, callerForce |-> FALSE, requestedUserId |-> "",
     setexTtl |-> 0,
     expChecked |-> FALSE, expReply |-> [found |-> FALSE, str |-> EmptyText],
     expRead |-> FALSE,
     initAtStart |-> FALSE, baseReadable |-> FALSE, filesSound |-> FALSE]

Finish(call, served, out) == [call EXCEPT !.pc = "done", !.served = served, !.out = out]

Event(kind, key) == <<kind, key>>

\* String.prototype.join(", ") over the identifiers of the steps
RECURSIVE JoinIds(_)
JoinIds(steps) ==
    IF Len(steps) = 0 THEN ""
    ELSE IF Len(steps) = 1 THEN StepId(steps[1])
    ELSE StepId(steps[1]) \o ", " \o JoinIds(Tail(steps))

\* The message without its last candidate.
NotFoundMessageShort(originalConfigId, steps) ==
    "Config not found after cascade resolution: " \o originalConfigId
        \o ". Checked: " \o JoinIds(SubSeq(steps, 1, Len(steps) - 1))

NotFoundMessage(originalConfigId, steps) ==
    "Config not found after cascade resolution: " \o originalConfigId
        \o ". Checked: " \o JoinIds(steps)

\* The first validator of resolveWithCascade that throws, "ok" if none does.
ValidateInputs(scope, module, profile, version) ==
    IF validateScope(scope) # "ok" THEN validateScope(scope)
    ELSE IF validateModule(module) # "ok" THEN validateModule(module)
    ELSE IF validateProfile(profile) # "ok" THEN validateProfile(profile)
    ELSE validateVersion(version)

\* resolveWithCascade up to its first file access: validation and the steps.
EnterCascade(call) ==
    LET v == ValidateInputs(call.scope, call.module, call.profile, call.version)
        validUserId == IF validateUserId(call.userId) THEN call.userId ELSE "_"
    IN  IF v # "ok"
        THEN Finish(call, "", Thrown(v, ""))
        ELSE [call EXCEPT
                !.pc = "file",
                !.steps = generateCascadeSteps(call.scope, call.module, validUserId,
                                               call.profile, call.version),
                !.originalConfigId = buildConfigId(call.scope, call.module, validUserId,
                                                   call.profile, call.version),
                !.idx = 1]

\* loadConfig up to the await of getExperimentConfig.
LoadStart(c, o) ==
    /\ calls[c].pc = "idle"
    /\ LET scope == IF "scope" \in o.given THEN o.scope ELSE DEFAULT_SCOPE
           version == IF "version" \in o.given THEN o.version ELSE 1
           forceRefresh == IF "forceRefresh" \in o.given THEN o.forceRefresh ELSE FALSE
           rawUserId == IF "userId" \in o.given THEN o.userId ELSE "_"
           userId == IF validateUserId(rawUserId) THEN rawUserId ELSE "_"
           issued == redisAvailable /\ redisClient
       IN  calls' = [calls EXCEPT ![c] =
                [@ EXCEPT !.pc = "exp",
                          !.scope = scope, !.module = o.module, !.profile = o.profile,
                          !.userId = userId, !.version = version,
                          !.forceRefresh = forceRefresh,
                          !.expIssued = issued,
                          !.trace = IF issued
                                    THEN <<Event("exp_get", buildExperimentKey(o.module, o.profile))>>
                                    ELSE << >>,
                          !.requestedVersion = version, !.callerForce = forceRefresh,
                          !.requestedUserId = rawUserId,
                          !.initAtStart = initialized,
                          !.baseReadable = BaseReadable(files),
                          !.filesSound = FilesSound(files)]]
    /\ UNCHANGED <<files, cacheVars, cacheHistory, warnedConfigIds, warnLog, redisUrl, maxSize, retry, initCalls, inits, cacheAudit,
                   redisClient, redisAvailable, conn, initialized, initPc, store>>

\* The override of the version without the forced refresh.
WithExperimentVersionOnly(call, exp) ==
    LET version == IF exp.found THEN exp.version ELSE call.version
    IN  [call EXCEPT
            !.version = version,
            !.configId = buildConfigId(call.scope, call.module, call.userId,
                                       call.profile, version)]

\* The override with the identifier built from the version requested.
WithExperimentRequestedId(call, exp) ==
    LET version == IF exp.found THEN exp.version ELSE call.version
    IN  [call EXCEPT
            !.version = version,
            !.forceRefresh = IF exp.found THEN TRUE ELSE call.forceRefresh,
            !.configId = buildConfigId(call.scope, call.module, call.userId,
                                       call.profile, call.version)]

\* The call after the experiment check, before any cache is looked at.
WithExperiment(call, exp) ==
    LET version == IF exp.found THEN exp.version ELSE call.version
    IN  [call EXCEPT
            !.version = version,
            !.forceRefresh = IF exp.found THEN TRUE ELSE call.forceRefresh,
            !.configId = buildConfigId(call.scope, call.module, call.userId,
                                       call.profile, version)]

\* The local cache looked into whatever forceRefresh says.
LooksInLocalAlways(forceRefresh) == TRUE

\* The shared tier looked into whenever a client is held.
LooksInSharedAnyFlag(forceRefresh, available, client) == ~forceRefresh /\ client

\* Which tiers loadConfig looks into, given forceRefresh and the shared tier.
LooksInLocal(forceRefresh) == ~forceRefresh
LooksInShared(forceRefresh, available, client) == ~forceRefresh /\ available /\ client

\* getExperimentConfig returns; loadConfig runs on to its next await.
ExpDone(c, failed) ==
    /\ calls[c].pc = "exp"
    /\ failed => calls[c].expIssued
    /\ LET call == calls[c]
           reply == RedisGet(store, buildExperimentKey(call.module, call.profile))
           exp == IF call.expIssued
                  THEN ExperimentOf(reply, failed)
                  ELSE [found |-> FALSE, version |-> 0]
           c1 == [WithExperiment(call, exp) EXCEPT
                     !.expChecked = TRUE, !.expReply = reply,
                     !.expRead = (call.expIssued /\ ~failed)]
           local == LooksInLocal(c1.forceRefresh)
           g == IF local
                THEN LRUGet(lru, c1.configId, now, TtlMs)
                ELSE [cache |-> lru, hit |-> FALSE, value |-> << >>]
           c2 == IF local
                 THEN [c1 EXCEPT !.trace = Append(@, Event("lru_get", c1.configId))]
                 ELSE c1
       IN  /\ lru' = g.cache
           /\ hits' = IF local /\ g.hit THEN hits + 1 ELSE hits
           /\ misses' = IF local /\ ~g.hit THEN misses + 1 ELSE misses
           /\ calls' = [calls EXCEPT ![c] =
                IF local /\ g.hit
                THEN Finish(c2, "local", Returned(JsonParse(g.value).json))
                ELSE IF LooksInShared(c2.forceRefresh, redisAvailable, redisClient)
                THEN [c2 EXCEPT !.pc = "redisget",
                                !.trace = Append(@, Event("redis_get", buildRedisKey(c2.configId)))]
                ELSE EnterCascade(c2)]
    /\ UNCHANGED <<files, now, cacheHistory, warnedConfigIds, warnLog, redisUrl, maxSize, retry, initCalls, inits, cacheAudit,
                   redisClient, redisAvailable, conn, initialized, initPc, store>>

\* tryLoadFromRedis after its get: the parsed value, found = FALSE for null.
RedisResult(reply, failed) ==
    LET null == [found |-> FALSE, json |-> JsonNull]
    IN  IF failed THEN null
        ELSE IF ~TruthyReply(reply) THEN null
        ELSE LET p == JsonParse(reply.str)
             IN  IF ~p.ok THEN null
                 ELSE IF p.json.kind = "null" THEN null
                 ELSE [found |-> TRUE, json |-> p.json]

\* A hit of the shared tier returned without being stored locally.
RedisGetDoneNoPromotion(c, failed) ==
    /\ calls[c].pc = "redisget"
    /\ LET call == calls[c]
           r == RedisResult(RedisGet(store, buildRedisKey(call.configId)), failed)
       IN  IF r.found
           THEN /\ lru' = lru
                /\ calls' = [calls EXCEPT ![c] = Finish(call, "shared", Returned(r.json))]
           ELSE /\ lru' = lru
                /\ calls' = [calls EXCEPT ![c] = EnterCascade(call)]
    /\ UNCHANGED <<files, hits, misses, now, cacheHistory, warnedConfigIds, warnLog,
                   redisUrl, maxSize, retry, initCalls, inits, cacheAudit, redisClient, redisAvailable, conn, initialized, initPc, store>>

\* tryLoadFromRedis returns; a hit is stored locally and returned.
RedisGetDone(c, failed) ==
    /\ calls[c].pc = "redisget"
    /\ LET call == calls[c]
           r == RedisResult(RedisGet(store, buildRedisKey(call.configId)), failed)
       IN  IF r.found
           THEN /\ lru' = LRUSet(lru, call.configId, JsonStringify(r.json), now, maxSize)
                /\ calls' = [calls EXCEPT ![c] =
                      Finish([call EXCEPT !.trace = Append(@, Event("lru_set", call.configId))],
                             "shared", Returned(r.json))]
           ELSE /\ lru' = lru
                /\ calls' = [calls EXCEPT ![c] = EnterCascade(call)]
    /\ UNCHANGED <<files, hits, misses, now, cacheHistory, warnedConfigIds, warnLog,
                   redisUrl, maxSize, retry, initCalls, inits, cacheAudit, redisClient, redisAvailable, conn, initialized, initPc, store>>

\* The result given the coordinate of the request instead of the step's.
CascadeResultOfRequest(call, step, doc) ==
    ResolvedConfig(doc, call.configId, call.scope, call.module, call.profile, call.version)

\* A result whose content is specific to the scope of the winning step.
CascadeResultScoped(call, step, doc) ==
    ResolvedConfig(step.scope \o "/" \o doc, StepId(step), step.scope, step.module,
                   step.profile, step.version)

\* The ResolvedLLMConfig resolveWithCascade returns for a winning step.
CascadeResult(call, step, doc) ==
    ResolvedConfig(doc, StepId(step), step.scope, step.module, step.profile, step.version)

\* An invalid file taken for a missing one.
IsNotFoundOrInvalid(err) == err \in {"ConfigNotFoundError", "InvalidConfigError"}

\* error instanceof ConfigNotFoundError
IsNotFound(err) == err = "ConfigNotFoundError"

\* One turn of the loop of resolveWithCascade: the file of the current step
\* is loaded.  A success is written back by loadConfig up to the await of
\* tryStoreInRedis.  The trace gets "load" for the call of loadConfigFromFile
\* and "read" when it goes as far as reading the file.
FileTry(c) ==
    /\ calls[c].pc = "file"
    /\ LET call == calls[c]
           step == call.steps[call.idx]
           r == loadConfigFromFile(files, ConfigDir, step.module, step.profile, step.version)
           path == buildConfigFilePath(ConfigDir, step.module, step.profile, step.version)
           c1 == [call EXCEPT !.trace =
                    IF ReadsFile(files, ConfigDir, step.module, step.profile, step.version)
                    THEN @ \o <<Event("load", StepId(step)), Event("read", path)>>
                    ELSE Append(@, Event("load", StepId(step)))]
           result == CascadeResult(call, step, r.value)
           w == FallbackWarnings(warnedConfigIds, call.originalConfigId, call.profile, step)
           c2 == [c1 EXCEPT !.result = result,
                            !.trace = Append(@, Event("lru_set", call.configId))]
       IN  IF r.ok
           THEN /\ warnedConfigIds' = w.warned
                /\ warnLog' = warnLog \o w.log
                /\ lru' = LRUSet(lru, call.configId, JsonStringify(result), now, maxSize)
                /\ calls' = [calls EXCEPT ![c] =
                      IF redisAvailable /\ redisClient
                      THEN [c2 EXCEPT !.pc = "redisset",
                                      !.setexTtl = DEFAULT_REDIS_TTL_SECONDS,
                                      !.trace = Append(@, Event("redis_set", buildRedisKey(call.configId)))]
                      ELSE Finish(c2, "file", Returned(result))]
           ELSE /\ UNCHANGED <<warnedConfigIds, warnLog, lru>>
                /\ calls' = [calls EXCEPT ![c] =
                      IF IsNotFound(r.err)
                      THEN IF call.idx < Len(call.steps)
                           THEN [c1 EXCEPT !.idx = call.idx + 1]
                           ELSE Finish(c1, "", Thrown("ConfigNotFoundError",
                                     NotFoundMessage(call.originalConfigId, call.steps)))
                      ELSE Finish(c1, "", Thrown(r.err, ""))]
    /\ UNCHANGED <<files, hits, misses, now, cacheHistory, redisUrl, maxSize, retry, initCalls, inits, cacheAudit, redisClient,
                   redisAvailable, conn, initialized, initPc, store>>

\* tryStoreInRedis without its catch: a failing setex fails the call.
RedisSetDoneThrows(c, failed) ==
    /\ calls[c].pc = "redisset"
    /\ LET call == calls[c]
       IN  /\ store' = IF failed
                       THEN store
                       ELSE RedisSetex(store, buildRedisKey(call.configId),
                                       JsonStringify(call.result))
           /\ calls' = [calls EXCEPT ![c] =
                 IF failed THEN Finish(call, "", Thrown("Error", ""))
                 ELSE Finish(call, "file", Returned(call.result))]
    /\ UNCHANGED <<files, cacheVars, cacheHistory, warnedConfigIds, warnLog, redisUrl, maxSize, retry, initCalls, inits, cacheAudit,
                   redisClient, redisAvailable, conn, initialized, initPc>>

\* tryStoreInRedis returns and loadConfig with it.
RedisSetDone(c, failed) ==
    /\ calls[c].pc = "redisset"
    /\ LET call == calls[c]
       IN  /\ store' = IF failed
                       THEN store
                       ELSE RedisSetex(store, buildRedisKey(call.configId),
                                       JsonStringify(call.result))
           /\ calls' = [calls EXCEPT ![c] = Finish(call, "file", Returned(call.result))]
    /\ UNCHANGED <<files, cacheVars, cacheHistory, warnedConfigIds, warnLog, redisUrl, maxSize, retry, initCalls, inits, cacheAudit,
                   redisClient, redisAvailable, conn, initialized, initPc>>

(***************************************************************************)
(* init().                                                                 *)
(***************************************************************************)
\* The outcome of the init() call under way.
Settle(log, outcome) == [log EXCEPT ![Len(log)] = outcome]

\* init() without its test of initialized.
InitStartAgain ==
    /\ initPc = "idle"
    /\ Len(inits) < MaxInits
    /\ inits' = Append(inits, "running")
    /\ initPc' = "file"
    /\ UNCHANGED <<files, cacheVars, cacheHistory, warnedConfigIds, warnLog, redisUrl, maxSize, retry, initCalls, cacheAudit,
                   redisClient, redisAvailable, conn, initialized, store, calls>>

\* init() up to the await of the base file; a second call only warns.
InitStart ==
    /\ initPc = "idle"
    /\ Len(inits) < MaxInits
    /\ inits' = Append(inits, IF initialized THEN "noop" ELSE "running")
    /\ initPc' = IF initialized THEN "idle" ELSE "file"
    /\ UNCHANGED <<files, cacheVars, cacheHistory, warnedConfigIds, warnLog, redisUrl, maxSize, retry, initCalls, cacheAudit,
                   redisClient, redisAvailable, conn, initialized, store, calls>>

\* init() going on to initRedis whatever the load of the base file gave.
InitFileDoneLenient ==
    /\ initPc = "file"
    /\ IF (redisAvailable /\ redisClient) \/ ~redisUrl
       THEN /\ initPc' = "idle"
            /\ initialized' = TRUE
            /\ inits' = Settle(inits, "ok")
            /\ UNCHANGED <<redisClient, conn>>
       ELSE /\ initPc' = "connect"
            /\ redisClient' = TRUE
            /\ conn' = TRUE
            /\ UNCHANGED <<initialized, inits>>
    /\ UNCHANGED <<files, cacheVars, cacheHistory, warnedConfigIds, warnLog, redisUrl, maxSize, retry, initCalls, cacheAudit,
                   redisAvailable, store, calls>>

\* The base file is loaded; initRedis runs up to the await of connect().
InitFileDone ==
    /\ initPc = "file"
    /\ LET r == loadConfigFromFile(files, ConfigDir, "_default", "_base", 1)
       IN  IF ~r.ok
           THEN /\ initPc' = "idle"
                /\ inits' = Settle(inits, r.err)
                /\ UNCHANGED <<redisClient, conn, initialized>>
           ELSE IF (redisAvailable /\ redisClient) \/ ~redisUrl
           THEN /\ initPc' = "idle"
                /\ initialized' = TRUE
                /\ inits' = Settle(inits, "ok")
                /\ UNCHANGED <<redisClient, conn>>
           ELSE /\ initPc' = "connect"
                /\ redisClient' = TRUE
                /\ conn' = TRUE
                /\ UNCHANGED <<initialized, inits>>
    /\ UNCHANGED <<files, cacheVars, cacheHistory, warnedConfigIds, warnLog, redisUrl, maxSize, retry, initCalls, cacheAudit,
                   redisAvailable, store, calls>>

\* initRedis without its catch: a failed connect fails init().
InitConnectDoneFatal(ok) ==
    /\ initPc = "connect"
    /\ IF ok
       THEN /\ initPc' = "ping"
            /\ UNCHANGED <<redisClient, redisAvailable, initialized, inits>>
       ELSE /\ initPc' = "idle"
            /\ inits' = Settle(inits, "Error")
            /\ UNCHANGED <<redisClient, redisAvailable, initialized>>
    /\ UNCHANGED <<files, cacheVars, cacheHistory, warnedConfigIds, warnLog, redisUrl, maxSize, retry, initCalls, cacheAudit,
                   conn, store, calls>>

\* connect() settles.
InitConnectDone(ok) ==
    /\ initPc = "connect"
    /\ IF ok
       THEN /\ initPc' = "ping"
            /\ UNCHANGED <<redisClient, redisAvailable, initialized, inits>>
       ELSE /\ initPc' = "idle"
            /\ redisClient' = FALSE
            /\ redisAvailable' = FALSE
            /\ initialized' = TRUE
            /\ inits' = Settle(inits, "ok")
    /\ UNCHANGED <<files, cacheVars, cacheHistory, warnedConfigIds, warnLog, redisUrl, maxSize, retry, initCalls, cacheAudit,
                   conn, store, calls>>

\* ping() settles: "PONG", another reply, or a failure.
InitPingDone(pong) ==
    /\ initPc = "ping"
    /\ initPc' = "idle"
    /\ redisClient' = (IF pong THEN redisClient ELSE FALSE)
    /\ redisAvailable' = pong
    /\ initialized' = TRUE
    /\ inits' = Settle(inits, "ok")
    /\ UNCHANGED <<files, cacheVars, cacheHistory, warnedConfigIds, warnLog, redisUrl, maxSize, retry, initCalls, cacheAudit,
                   conn, store, calls>>

(***************************************************************************)
(* close().  initPc is "quit" while close() awaits redisClient.quit().     *)
(***************************************************************************)
\* What close() does after the shared tier: the local cache and the warned
\* set are cleared, initialized is reset.
CloseRest ==
    /\ lru' = LRUClear(lru)
    /\ warnedConfigIds' = << >>
    /\ initialized' = FALSE
    /\ initPc' = "idle"

\* close() up to the await of quit(), or to its end when no client is held.
CloseStart ==
    /\ initPc = "idle"
    /\ Len(inits) < MaxInits
    /\ IF redisClient
       THEN /\ initPc' = "quit"
            /\ inits' = Append(inits, "closing")
            /\ UNCHANGED <<lru, warnedConfigIds, initialized>>
       ELSE /\ CloseRest
            /\ inits' = Append(inits, "closed")
    /\ UNCHANGED <<files, hits, misses, now, cacheHistory, warnLog, redisUrl, maxSize, retry, initCalls, cacheAudit,
                   redisClient, redisAvailable, conn, store, calls>>

\* quit() settles (a failure is answered by disconnect()): the client is
\* dropped, its connection ended, and close() runs to its end.
CloseQuitDone(failed) ==
    /\ initPc = "quit"
    /\ redisClient' = FALSE
    /\ redisAvailable' = FALSE
    /\ conn' = FALSE
    /\ CloseRest
    /\ inits' = Settle(inits, "closed")
    /\ UNCHANGED <<files, hits, misses, now, cacheHistory, warnLog, redisUrl, maxSize, retry, initCalls, cacheAudit,
                   store, calls>>

(***************************************************************************)
(* The environment: connection events, the shared tier, the files.         *)
(***************************************************************************)
\* redisClient.on("connect")
RedisConnectEvent ==
    /\ conn
    /\ ops < MaxEnv
    /\ ops' = ops + 1
    /\ redisAvailable' = TRUE
    /\ UNCHANGED <<files, cacheVars, touched, expired, warnedConfigIds, warnLog, redisUrl, maxSize, retry, initCalls, inits, cacheAudit,
                   redisClient, conn, initialized, initPc, store, calls>>

\* redisClient.on("error")
RedisErrorEvent ==
    /\ conn
    /\ ops < MaxEnv
    /\ ops' = ops + 1
    /\ redisAvailable' = FALSE
    /\ UNCHANGED <<files, cacheVars, touched, expired, warnedConfigIds, warnLog, redisUrl, maxSize, retry, initCalls, inits, cacheAudit,
                   redisClient, conn, initialized, initPc, store, calls>>

\* redisClient.on("close")
RedisCloseEvent ==
    /\ conn
    /\ ops < MaxEnv
    /\ ops' = ops + 1
    /\ redisAvailable' = FALSE
    /\ UNCHANGED <<files, cacheVars, touched, expired, warnedConfigIds, warnLog, redisUrl, maxSize, retry, initCalls, inits, cacheAudit,
                   redisClient, conn, initialized, initPc, store, calls>>

\* Another client of the shared tier writes a key.
SharedWrite(key, str) ==
    /\ store' = RedisSetex(store, key, str)
    /\ ops < MaxEnv
    /\ ops' = ops + 1
    /\ UNCHANGED <<files, cacheVars, touched, expired, warnedConfigIds, warnLog, redisUrl, maxSize, retry, initCalls, inits, cacheAudit,
                   redisClient, redisAvailable, conn, initialized, initPc, calls>>

\* A file of the tree changes; the calls in flight remember what they have
\* seen of the tree.
FileChange(path, status) ==
    /\ path \in DOMAIN files
    /\ files[path] # status
    /\ ops < MaxEnv
    /\ ops' = ops + 1
    /\ files' = [files EXCEPT ![path] = status]
    /\ calls' = [c \in DOMAIN calls |->
                    IF calls[c].pc \in {"idle", "done"}
                    THEN calls[c]
                    ELSE [calls[c] EXCEPT
                            !.baseReadable = @ /\ BaseReadable(files'),
                            !.filesSound = @ /\ FilesSound(files')]]
    /\ UNCHANGED <<cacheVars, touched, expired, warnedConfigIds, warnLog, redisUrl, maxSize, retry, initCalls, inits, cacheAudit,
                   redisClient, redisAvailable, conn, initialized, initPc, store>>

(***************************************************************************)
(* The cache on its own: direct calls of LRUCache methods.                 *)
(***************************************************************************)
\* The empty string is a key like any other.
CacheKeySet == {"", "a", "b", "c"}
CacheValueSet == {"x", "y"}
\* How far the clock runs.
MaxTime == 3

InitCache ==
    /\ files = << >>
    /\ warnedConfigIds = << >>
    /\ warnLog = << >>
    /\ redisUrl = FALSE
    /\ redisClient = FALSE
    /\ redisAvailable = FALSE
    /\ conn = FALSE
    /\ initialized = FALSE
    /\ initPc = "idle"
    /\ store = << >>
    /\ calls = << >>
    /\ maxSize = MaxSize
    /\ retry = NoRetry
    /\ initCalls = << >>
    /\ inits = << >>
    /\ lastOp = NoOp
    /\ getCalls = 0
    /\ getValues = 0
    /\ lru = << >>
    /\ hits = 0
    /\ misses = 0
    /\ now = 0
    /\ touched = << >>
    /\ expired = FALSE
    /\ ops = 0

CacheSet(key, value) ==
    /\ ops < MaxOps
    /\ lru' = LRUSet(lru, key, value, now, maxSize)
    /\ touched' = Touch(touched, key)
    /\ ops' = ops + 1
    /\ UNCHANGED <<files, hits, misses, now, expired, engineVars, maxSize, retry, initCalls, inits, cacheAudit>>

CacheGet(key) ==
    /\ ops < MaxOps
    /\ LET r == LRUGet(lru, key, now, TtlMs)
       IN  /\ lru' = r.cache
           /\ hits' = IF r.hit THEN hits + 1 ELSE hits
           /\ misses' = IF r.hit THEN misses ELSE misses + 1
           /\ touched' = IF r.hit THEN Touch(touched, key) ELSE touched
           /\ expired' = (expired \/ (CacheHas(lru, key) /\ ~r.hit))
    /\ ops' = ops + 1
    /\ UNCHANGED <<files, now, engineVars, maxSize, retry, initCalls, inits, cacheAudit>>

Tick ==
    /\ now < MaxTime
    /\ now' = now + 1
    /\ UNCHANGED <<files, lru, hits, misses, touched, expired, ops, engineVars, maxSize, retry, initCalls, inits, cacheAudit>>

NextCache ==
    \/ \E k \in CacheKeySet, v \in CacheValueSet : CacheSet(k, v)
    \/ \E k \in CacheKeySet : CacheGet(k)
    \/ Tick

SpecCache == InitCache /\ [][NextCache]_vars

(***************************************************************************)
(* The cache on its own, every method of it, for every capacity.           *)
(***************************************************************************)
OpKeySet == {"", "a:b:c", "a:x:c", "d:b:c"}
OpPatternSet == {"*", "a:b", "a:*:c", "*:b", "a:*:c:*"}
OpCapacities == 1..(MaxSize + 1)

InitOps ==
    /\ files = << >>
    /\ inits = << >>
    /\ warnedConfigIds = << >>
    /\ warnLog = << >>
    /\ redisUrl = FALSE
    /\ redisClient = FALSE
    /\ redisAvailable = FALSE
    /\ conn = FALSE
    /\ initialized = FALSE
    /\ initPc = "idle"
    /\ store = << >>
    /\ calls = << >>
    /\ maxSize \in OpCapacities
    /\ retry = NoRetry
    /\ initCalls = << >>
    /\ lastOp = NoOp
    /\ getCalls = 0
    /\ getValues = 0
    /\ lru = << >>
    /\ hits = 0
    /\ misses = 0
    /\ now = 0
    /\ touched = << >>
    /\ expired = FALSE
    /\ ops = 0

\* What a direct operation leaves alone besides the cache and its counters.
OpFrame ==
    /\ ops < MaxOps
    /\ ops' = ops + 1
    /\ UNCHANGED <<files, now, touched, expired, engineVars, maxSize, retry, initCalls, inits>>

OpSet(key, value) ==
    /\ OpFrame
    /\ lru' = LRUSet(lru, key, value, now, maxSize)
    /\ lastOp' = [NoOp EXCEPT !.op = "set", !.arg = key, !.value = value]
    /\ UNCHANGED <<hits, misses, getCalls, getValues>>

OpGet(key) ==
    /\ OpFrame
    /\ LET r == LRUGet(lru, key, now, TtlMs)
       IN  /\ lru' = r.cache
           /\ hits' = IF r.hit THEN hits + 1 ELSE hits
           /\ misses' = IF r.hit THEN misses ELSE misses + 1
           /\ getCalls' = getCalls + 1
           /\ getValues' = IF r.hit THEN getValues + 1 ELSE getValues
           /\ lastOp' = [NoOp EXCEPT !.op = "get", !.arg = key, !.hit = r.hit,
                                     !.value = IF r.hit THEN r.value ELSE "",
                                     !.count = Len(lru) - Len(r.cache)]

OpHas(key) ==
    /\ OpFrame
    /\ LET r == LRUHas(lru, key, now, TtlMs)
       IN  /\ lru' = r.cache
           /\ lastOp' = [NoOp EXCEPT !.op = "has", !.arg = key, !.hit = r.has]
    /\ UNCHANGED <<hits, misses, getCalls, getValues>>

OpDelete(key) ==
    /\ OpFrame
    /\ LET r == LRUDelete(lru, key)
       IN  /\ lru' = r.cache
           /\ lastOp' = [NoOp EXCEPT !.op = "delete", !.arg = key, !.hit = r.existed]
    /\ UNCHANGED <<hits, misses, getCalls, getValues>>

OpInvalidate(pattern) ==
    /\ OpFrame
    /\ LET r == LRUInvalidate(lru, pattern)
       IN  /\ lru' = r.cache
           /\ lastOp' = [NoOp EXCEPT !.op = "invalidate", !.arg = pattern, !.count = r.count]
    /\ UNCHANGED <<hits, misses, getCalls, getValues>>

OpClear ==
    /\ OpFrame
    /\ lru' = LRUClear(lru)
    /\ lastOp' = [NoOp EXCEPT !.op = "clear"]
    /\ UNCHANGED <<hits, misses, getCalls, getValues>>

OpGetStats ==
    /\ OpFrame
    /\ lastOp' = [NoOp EXCEPT !.op = "getStats",
                              !.stats = LRUGetStats(lru, maxSize, hits, misses)]
    /\ UNCHANGED <<lru, hits, misses, getCalls, getValues>>

\* LRUCache.resetStats
OpResetStats ==
    /\ OpFrame
    /\ hits' = 0
    /\ misses' = 0
    /\ getCalls' = 0
    /\ getValues' = 0
    /\ lastOp' = [NoOp EXCEPT !.op = "resetStats"]
    /\ UNCHANGED lru

\* More than the TTL passes between two operations.
Elapse ==
    /\ now + TtlMs + 1 <= MaxTime
    /\ now' = now + TtlMs + 1
    /\ UNCHANGED <<files, lru, hits, misses, touched, expired, ops, engineVars,
                   maxSize, retry, initCalls, inits, cacheAudit>>

NextOps ==
    \/ \E k \in OpKeySet : OpSet(k, "x")
    \/ \E k \in OpKeySet : OpGet(k)
    \/ \E k \in OpKeySet : OpHas(k)
    \/ \E k \in OpKeySet : OpDelete(k)
    \/ \E pattern \in OpPatternSet : OpInvalidate(pattern)
    \/ OpClear
    \/ OpGetStats
    \/ OpResetStats
    \/ Elapse

SpecOps == InitOps /\ [][NextOps]_vars

(***************************************************************************)
(* The cache and the clock: set, get and has on a few keys while time      *)
(* passes.                                                                 *)
(***************************************************************************)
TtlKeySet == {"", "a"}

NextTtl ==
    \/ \E k \in TtlKeySet, v \in CacheValueSet : OpSet(k, v)
    \/ \E k \in TtlKeySet : OpGet(k)
    \/ \E k \in TtlKeySet : OpHas(k)
    \/ Tick

SpecTtl == InitCache /\ [][NextTtl]_vars

(***************************************************************************)
(* Requests.                                                               *)
(***************************************************************************)
\* In the sets of requests below, NotGiven (a string no request contains) and
\* NoVersion mark an optional member that is left out.
NotGiven == "<not given>"
NoVersion == 0 - 1

Request(scope, module, userId, profile, version, forceRefresh) ==
    Options((IF scope # NotGiven THEN {"scope"} ELSE {})
                \cup (IF userId # NotGiven THEN {"userId"} ELSE {})
                \cup (IF version # NoVersion THEN {"version"} ELSE {})
                \cup (IF forceRefresh THEN {"forceRefresh"} ELSE {}),
            scope, module, userId, profile, version, forceRefresh)

\* The files the cascade of a request can read.
RelevantPaths(o) ==
    LET scope == IF "scope" \in o.given THEN o.scope ELSE DEFAULT_SCOPE
        version == IF "version" \in o.given THEN o.version ELSE 1
        rawUserId == IF "userId" \in o.given THEN o.userId ELSE "_"
        userId == IF validateUserId(rawUserId) THEN rawUserId ELSE "_"
        steps == generateCascadeSteps(scope, o.module, userId, o.profile, version)
    IN  IF ValidateInputs(scope, o.module, o.profile, version) # "ok"
        THEN {}
        ELSE {buildConfigFilePath(ConfigDir, steps[i].module, steps[i].profile,
                                  steps[i].version) : i \in 1..Len(steps)}

FreshEngine ==
    /\ maxSize = MaxSize
    /\ retry = NoRetry
    /\ initCalls = << >>
    /\ inits = << >>
    /\ lastOp = NoOp
    /\ getCalls = 0
    /\ getValues = 0
    /\ lru = << >>
    /\ hits = 0
    /\ misses = 0
    /\ now = 0
    /\ touched = << >>
    /\ expired = FALSE
    /\ ops = 0
    /\ warnedConfigIds = << >>
    /\ warnLog = << >>
    /\ redisClient = FALSE
    /\ redisAvailable = FALSE
    /\ conn = FALSE
    /\ initialized = FALSE
    /\ initPc = "idle"
    /\ calls = [c \in Calls |-> IdleCall]

(***************************************************************************)
(* The file cascade: one loadConfig call of a loader without a shared      *)
(* tier, over every tree of the files its cascade can read.                *)
(***************************************************************************)
ResolveRequests ==
    {Request(scope, module, userId, profile, version, FALSE) :
        scope \in {NotGiven, "_default", "prd"},
        module \in {"_default", "hrkg", "../etc"},
        userId \in {NotGiven, "u1", "a/b"},
        profile \in {"_base", "extraction"},
        version \in {NoVersion, 2}}

InitResolve ==
    /\ FreshEngine
    /\ store = << >>
    /\ redisUrl = FALSE
    /\ files \in UNION {[RelevantPaths(o) -> FileStatus] : o \in ResolveRequests}

ResolveStart ==
    /\ calls[1].pc = "idle"
    /\ \E o \in ResolveRequests :
        /\ RelevantPaths(o) = DOMAIN files
        /\ LoadStart(1, o)

ResolveExperiment == ExpDone(1, FALSE)

ResolveFile == FileTry(1)

NextResolve ==
    \/ ResolveStart
    \/ ResolveExperiment
    \/ ResolveFile

SpecResolve == InitResolve /\ [][NextResolve]_vars

(***************************************************************************)
(* Properties of the cascade, checked under SpecResolve (the files do not  *)
(* change there, so a step's file is what the call met).                   *)
(***************************************************************************)
\* The events of one kind in a trace, in order.
EventsOf(trace, kind) == SelectSeq(trace, LAMBDA e : e[1] = kind)

StepPath(step) == buildConfigFilePath(ConfigDir, step.module, step.profile, step.version)
StepStatus(step) == StatusOf(files, StepPath(step))

\* The five levels of the cascade, each with the condition under which it is a
\* candidate, and the candidates among them in order.
CascadeLevels(scope, module, userId, profile, version) ==
    <<[on |-> userId # "_",
       at |-> CascadeStep(scope, module, userId, profile, version)],
      [on |-> TRUE,
       at |-> CascadeStep(scope, module, "_", profile, version)],
      [on |-> module # "_default",
       at |-> CascadeStep(scope, "_default", "_", profile, version)],
      [on |-> scope # "_default",
       at |-> CascadeStep("_default", "_default", "_", profile, version)],
      [on |-> <<profile, version>> # <<"_base", 1>>,
       at |-> CascadeStep("_default", "_default", "_", "_base", 1)]>>

CandidatesOf(scope, module, userId, profile, version) ==
    LET kept == SelectSeq(CascadeLevels(scope, module, userId, profile, version),
                          LAMBDA l : l.on)
    IN  [i \in 1..Len(kept) |-> kept[i].at]

\* The candidates of the coordinate a call resolves.
CallCandidates(call) ==
    CandidatesOf(call.scope, call.module, call.userId, call.profile, call.version)

\* The call has entered the cascade.
InCascade(call) == call.pc = "file" \/ call.steps # << >>

\* C1: generateCascadeSteps returns the candidates of the five levels in the
\* fixed order, each level under its condition: 5 candidates when all the
\* conditions hold, 4 when only the user level is left out, and 1 for
\* (_default, _default, _, _base, 1).
C1_CascadeOrder ==
    \A c \in Calls :
        LET call == calls[c]
            all == /\ call.module # "_default"
                   /\ call.scope # "_default"
                   /\ <<call.profile, call.version>> # <<"_base", 1>>
        IN  InCascade(call) =>
                /\ call.steps = CallCandidates(call)
                /\ (call.userId # "_" /\ all) => Len(call.steps) = 5
                /\ (call.userId = "_" /\ all) => Len(call.steps) = 4
                /\ (/\ call.scope = "_default"
                    /\ call.module = "_default"
                    /\ call.userId = "_"
                    /\ <<call.profile, call.version>> = <<"_base", 1>>)
                       => call.steps = <<CascadeStep("_default", "_default", "_", "_base", 1)>>

\* C1 witness: a cascade of five candidates for a request with a user.
C1_Witness ==
    /\ calls[1].pc = "file"
    /\ calls[1].userId # "_"
    /\ Len(calls[1].steps) = 5

\* C2: a call the cascade serves returns the document of the first candidate
\* whose file loads, with the coordinate of that candidate; the candidates
\* were tried in list order and none after the winning one.
C2_FirstSuccessWins ==
    \A c \in Calls :
        LET call == calls[c]
            steps == call.steps
            value == call.out.value
        IN  (call.pc = "done" /\ call.served = "file") =>
                /\ call.out.kind = "value"
                /\ \E w \in 1..Len(steps) :
                      /\ StepStatus(steps[w]) = "ok"
                      /\ \A j \in 1..(w - 1) : StepStatus(steps[j]) # "ok"
                      /\ value.doc = StepPath(steps[w])
                      /\ value.configId = StepId(steps[w])
                      /\ value.scope = steps[w].scope
                      /\ value.module = steps[w].module
                      /\ value.profile = steps[w].profile
                      /\ value.version = steps[w].version
                      /\ EventsOf(call.trace, "load")
                            = [i \in 1..w |-> Event("load", StepId(steps[i]))]

\* C2 witness: a call served by a candidate that is not the requested
\* coordinate, after an earlier candidate was not found.
C2_Witness ==
    /\ calls[1].pc = "done"
    /\ calls[1].served = "file"
    /\ calls[1].out.value.configId # calls[1].configId
    /\ Len(EventsOf(calls[1].trace, "load")) = 3
    /\ Len(calls[1].steps) = 5

\* What a file that cannot be loaded makes loadConfigFromFile throw.
FatalStatus == {"eisdir", "escape", "badyaml", "badschema"}
MissingStatus == {"absent", "eacces"}
ErrorOfStatus(status) ==
    IF status \in {"badyaml", "badschema"} THEN "InvalidConfigError"
    ELSE IF status = "escape" THEN "SecurityError"
    ELSE IF status = "eisdir" THEN "FsError"
    ELSE "ConfigNotFoundError"

\* C3: when the first candidate that is not "not found" fails with another
\* error, the resolution fails with that error and no later candidate is
\* tried.
C3_FatalErrorAborts ==
    \A c \in Calls :
        LET call == calls[c]
            steps == call.steps
        IN  (call.pc = "done" /\ InCascade(call)) =>
                \A i \in 1..Len(steps) :
                    (/\ StepStatus(steps[i]) \in FatalStatus
                     /\ \A j \in 1..(i - 1) : StepStatus(steps[j]) \in MissingStatus)
                    => /\ call.out.kind = "error"
                       /\ call.out.err = ErrorOfStatus(StepStatus(steps[i]))
                       /\ EventsOf(call.trace, "load")
                             = [k \in 1..i |-> Event("load", StepId(steps[k]))]

\* C3 witness: a resolution aborted by an invalid file although the base
\* fallback after it would have loaded.
C3_Witness ==
    LET call == calls[1]
    IN  /\ call.pc = "done"
        /\ call.out.kind = "error"
        /\ call.out.err = "InvalidConfigError"
        /\ Len(call.steps) = 5
        /\ Len(EventsOf(call.trace, "load")) = 3
        /\ StepStatus(call.steps[5]) = "ok"

\* The identifiers of the steps from the i-th on, separated by ", ".
RECURSIVE ListFrom(_, _)
ListFrom(steps, i) ==
    IF i > Len(steps) THEN ""
    ELSE IF i = Len(steps) THEN StepId(steps[i])
    ELSE StepId(steps[i]) \o ", " \o ListFrom(steps, i + 1)

\* C9: when every candidate is not found, the resolution fails with NotFound
\* and the message lists the identifier of every candidate in cascade order.
C9_NotFoundNamesAll ==
    \A c \in Calls :
        LET call == calls[c]
        IN  (/\ call.pc = "done"
             /\ InCascade(call)
             /\ \A i \in 1..Len(call.steps) : StepStatus(call.steps[i]) \in MissingStatus)
            => /\ call.out.kind = "error"
               /\ call.out.err = "ConfigNotFoundError"
               /\ EndsWith(call.out.msg, "Checked: " \o ListFrom(CallCandidates(call), 1))
               /\ Len(EventsOf(call.trace, "load")) = Len(CallCandidates(call))

\* C9 witness: a cascade of five candidates, none found.
C9_Witness ==
    /\ calls[1].pc = "done"
    /\ calls[1].out.err = "ConfigNotFoundError"
    /\ Len(calls[1].steps) = 5

(***************************************************************************)
(* The loader with its shared tier: init(), the connection events, other   *)
(* writers of the shared tier, and loadConfig calls made one after the     *)
(* other, each step of which may meet a failing shared-tier command.       *)
(***************************************************************************)
\* The requests: version 1 of the module's profile, forced or not.  Version 2
\* is what the experiment directs them to.
LoadRequests ==
    {Request(NotGiven, "hrkg", NotGiven, "extraction", NoVersion, forceRefresh) :
        forceRefresh \in BOOLEAN}

\* The files the cascades of versions 1 and 2 name.
LoadPaths ==
    UNION {RelevantPaths(Request(NotGiven, "hrkg", NotGiven, "extraction", version, FALSE)) :
              version \in {NoVersion, 2}}

\* The key of the experiment of the requests, and the key of the document of
\* version 1.
LoadExperimentKey == buildExperimentKey("hrkg", "extraction")
LoadConfigId == buildConfigId(DEFAULT_SCOPE, "hrkg", "_", "extraction", 1)
LoadConfigKey == buildRedisKey(LoadConfigId)

\* {"enabled": <enabled>, "version": <version>, "enabledAt": "..."}
Directive(enabled, version) ==
    JsonStringify(JsonObject(BooleanField(enabled), IntegerField(version), StringField))

\* What another client writes under the experiment key.
LoadPayloads ==
    {Directive(TRUE, 2), Directive(TRUE, MAX_VERSION + 1), Directive(FALSE, 2)}

\* What another loader, or anyone else, writes under the key of a document:
\* the document as tryStoreInRedis writes it, or something that is no JSON.
LoadDocuments ==
    {JsonStringify(ResolvedConfig(buildConfigFilePath(ConfigDir, "hrkg", "extraction", 1),
                                  LoadConfigId, DEFAULT_SCOPE, "hrkg", "extraction", 1)),
     GarbageText}

\* The provisioned trees: the base file and version 2 of the module's file
\* valid, version 1 of it there or not, the files in between missing.
LoadTrees ==
    {f \in [LoadPaths -> {"ok", "absent"}] :
        /\ f[BasePath] = "ok"
        /\ f[buildConfigFilePath(ConfigDir, "hrkg", "extraction", 2)] = "ok"
        /\ \A p \in LoadPaths : f[p] = "ok" => Includes(p, "hrkg") \/ p = BasePath}

InitLoad ==
    /\ FreshEngine
    /\ store = << >>
    /\ redisUrl = TRUE
    /\ files \in LoadTrees

\* One caller, who awaits each of its calls: nothing of theirs is in flight.
CallerIdle ==
    /\ initPc = "idle"
    /\ \A c \in Calls : calls[c].pc \in {"idle", "done"}

\* The caller calls init() until it has succeeded, and again after a failure
\* only when something around the loader has changed.
LoadInit == CallerIdle /\ ~initialized /\ Len(inits) <= ops /\ InitStart

LoadNext(c) ==
    /\ CallerIdle
    /\ \A d \in Calls : d < c => calls[d].pc = "done"
    /\ \E o \in LoadRequests : LoadStart(c, o)

NextLoad ==
    \/ LoadInit
    \/ InitFileDone
    \/ \E ok \in BOOLEAN : InitConnectDone(ok)
    \/ \E pong \in BOOLEAN : InitPingDone(pong)
    \/ RedisConnectEvent
    \/ RedisErrorEvent
    \/ RedisCloseEvent
    \/ \E str \in LoadPayloads : SharedWrite(LoadExperimentKey, str)
    \/ \E str \in LoadDocuments : SharedWrite(LoadConfigKey, str)
    \/ \E c \in Calls : LoadNext(c)
    \/ \E c \in Calls, failed \in BOOLEAN : ExpDone(c, failed)
    \/ \E c \in Calls, failed \in BOOLEAN : RedisGetDone(c, failed)
    \/ \E c \in Calls : FileTry(c)
    \/ \E c \in Calls, failed \in BOOLEAN : RedisSetDone(c, failed)

SpecLoad == InitLoad /\ [][NextLoad]_vars

(***************************************************************************)
(* The experiment check: a loader whose shared tier holds, from the start, *)
(* any of the things that can be read under the experiment key.            *)
(***************************************************************************)
ExperimentFields ==
    [enabled : {BooleanField(TRUE), BooleanField(FALSE), StringField, UndefinedField},
     version : {IntegerField(2), IntegerField(0), IntegerField(0 - 1), FractionField(2),
                StringField, UndefinedField},
     enabledAt : {StringField, IntegerField(1), UndefinedField}]

\* What the get of the experiment key can return, null apart.
ExperimentReplies ==
    {EmptyText, GarbageText, JsonStringify(JsonNull), JsonStringify(JsonScalar)}
        \cup {JsonStringify(JsonObject(f.enabled, f.version, f.enabledAt)) :
                f \in ExperimentFields}

InitExperiment ==
    /\ FreshEngine
    /\ redisUrl = TRUE
    /\ files = [p \in LoadPaths |-> IF Includes(p, "hrkg") \/ p = BasePath
                                    THEN "ok" ELSE "absent"]
    /\ store \in {<< >>} \cup {RedisSetex(<< >>, LoadExperimentKey, str) :
                                  str \in ExperimentReplies}

NextExperiment ==
    \/ LoadInit
    \/ InitFileDone
    \/ \E ok \in BOOLEAN : InitConnectDone(ok)
    \/ \E pong \in BOOLEAN : InitPingDone(pong)
    \/ \E c \in Calls : LoadNext(c)
    \/ \E c \in Calls, failed \in BOOLEAN : ExpDone(c, failed)
    \/ \E c \in Calls, failed \in BOOLEAN : RedisGetDone(c, failed)
    \/ \E c \in Calls : FileTry(c)
    \/ \E c \in Calls, failed \in BOOLEAN : RedisSetDone(c, failed)

SpecExperiment == InitExperiment /\ [][NextExperiment]_vars

(***************************************************************************)
(* The base fallback: a loader without a shared tier on a tree whose files *)
(* come and go, the base file included.                                    *)
(***************************************************************************)
BaseTreePaths == LoadPaths \cup {BasePath}

BaseRequests ==
    {Request(NotGiven, "hrkg", NotGiven, "extraction", version, FALSE) :
        version \in {NoVersion, 2}}

\* What a file can become: for the base file anything a read can meet
\* short of leaving the tree, for the others there or not.
BaseChanges ==
    {<<BasePath, status>> : status \in {"ok", "absent", "eacces", "eisdir", "badyaml"}}
        \cup {<<path, status>> : path \in BaseTreePaths \ {BasePath},
                                 status \in {"ok", "absent"}}

InitBase ==
    /\ FreshEngine
    /\ store = << >>
    /\ redisUrl = FALSE
    /\ files \in [BaseTreePaths -> {"ok", "absent"}]

BaseNext(c) ==
    /\ CallerIdle
    /\ \A d \in Calls : d < c => calls[d].pc = "done"
    /\ \E o \in BaseRequests : LoadStart(c, o)

NextBase ==
    \/ LoadInit
    \/ InitFileDone
    \/ \E change \in BaseChanges : FileChange(change[1], change[2])
    \/ \E c \in Calls : BaseNext(c)
    \/ \E c \in Calls : ExpDone(c, FALSE)
    \/ \E c \in Calls : FileTry(c)

SpecBase == InitBase /\ [][NextBase]_vars

(***************************************************************************)
(* Properties of loadConfig with its shared tier, checked under SpecLoad.  *)
(***************************************************************************)
\* The stage of loadConfig an access belongs to.
StageOf(kind) ==
    CASE kind = "exp_get" -> 1
      [] kind = "lru_get" -> 2
      [] kind = "redis_get" -> 3
      [] kind \in {"load", "read"} -> 4
      [] kind \in {"lru_set", "redis_set"} -> 5

HasEvent(trace, kinds) == \E i \in 1..Len(trace) : trace[i][1] \in kinds

\* C4: the accesses of every loadConfig call come in the order of the stages
\* ExperimentCheck, LocalCacheCheck, SharedCacheCheck, CascadeResolve,
\* WriteBack (a shared-tier hit stores into the local cache and returns); a
\* call served by the local cache has made no shared-tier config lookup and
\* no file access, a call served by the shared tier has made no file access,
\* and a forced call (forceRefresh or an active experiment) has looked into
\* neither cache.
C4_StageOrder ==
    \A c \in Calls :
        LET call == calls[c]
            t == call.trace
        IN  /\ \A i, j \in 1..Len(t) : i < j => StageOf(t[i][1]) <= StageOf(t[j][1])
            /\ call.served = "local" =>
                  ~HasEvent(t, {"redis_get", "load", "read", "lru_set", "redis_set"})
            /\ call.served = "shared" => ~HasEvent(t, {"load", "read", "redis_set"})
            /\ (call.expChecked /\ call.forceRefresh) => ~HasEvent(t, {"lru_get", "redis_get"})
            /\ call.callerForce => ~HasEvent(t, {"lru_get", "redis_get"})

\* C4 witness: a call went through all five stages and was served from the
\* files, and the call after it was served by the local cache.
C4_Witness ==
    /\ calls[1].served = "file"
    /\ \A k \in {"exp_get", "lru_get", "redis_get", "load", "lru_set", "redis_set"} :
          HasEvent(calls[1].trace, {k})
    /\ calls[2].served = "local"

\* The directives of the experiment that are well-formed and enabled.
EnabledDirectiveVersions == {2, MAX_VERSION + 1}
HoldsEnabledDirective(reply, v) == reply.found /\ reply.str = Directive(TRUE, v)

\* C5 as stated: whenever the shared tier holds an enabled, well-formed
\* directive for (module, profile) at the experiment check of a call, the
\* call goes on with the directive's version and looks into neither cache.
C5_OverrideWheneverHeld ==
    \A c \in Calls : \A v \in EnabledDirectiveVersions :
        (calls[c].expChecked /\ HoldsEnabledDirective(calls[c].expReply, v)) =>
            /\ calls[c].version = v
            /\ ~HasEvent(calls[c].trace, {"lru_get", "redis_get"})

\* C5 amended: whenever the experiment lookup of a call is made (the shared
\* tier is available and a client is held) and succeeds, and the tier holds an
\* enabled, well-formed directive, the call goes on with the directive's
\* version, forced, and looks into neither cache; so does every later call,
\* whatever the earlier ones have written into the caches.
C5_OverrideWhenRead ==
    \A c \in Calls : \A v \in EnabledDirectiveVersions :
        (calls[c].expChecked /\ calls[c].expRead
            /\ HoldsEnabledDirective(calls[c].expReply, v)) =>
            /\ calls[c].version = v
            /\ calls[c].forceRefresh
            /\ calls[c].configId = buildConfigId(calls[c].scope, calls[c].module,
                                                 calls[c].userId, calls[c].profile, v)
            /\ ~HasEvent(calls[c].trace, {"lru_get", "redis_get"})

\* C5 witness: two identical requests for version 1 under the directive for
\* version 2; the first was resolved from the file of version 2 and written
\* to both caches, the second has passed its experiment check.
C5_Witness ==
    /\ calls[1].served = "file"
    /\ calls[1].requestedVersion = 1 /\ ~calls[1].callerForce
    /\ calls[1].expRead /\ HoldsEnabledDirective(calls[1].expReply, 2)
    /\ calls[1].out.value.doc = buildConfigFilePath(ConfigDir, "hrkg", "extraction", 2)
    /\ HasEvent(calls[1].trace, {"redis_set"})
    /\ CacheHas(lru, calls[1].configId)
    /\ buildRedisKey(calls[1].configId) \in DOMAIN store
    /\ calls[2].requestedVersion = 1 /\ ~calls[2].callerForce
    /\ calls[2].expRead /\ HoldsEnabledDirective(calls[2].expReply, 2)
    /\ calls[2].pc = "done"

\* C6 as stated: whatever the shared tier holds and whichever of its commands
\* fail, a loadConfig call with valid coordinates on a provisioned tree
\* returns a ResolvedConfig and raises nothing.  (Every request of SpecLoad
\* has valid coordinates.)
C6_SharedTierNeverSurfaces ==
    \A c \in Calls :
        (calls[c].pc = "done" /\ calls[c].filesSound) => calls[c].out.kind = "value"

(***************************************************************************)
(* Properties of the experiment check, checked under SpecExperiment.       *)
(***************************************************************************)
\* What was under the experiment key is no directive to follow: nothing or
\* an empty string, no JSON, JSON of the wrong shape, or a directive that is
\* not enabled.
Absent(reply) == ~reply.found \/ reply.str.text = "empty"
NotParseable(reply) == reply.found /\ reply.str.text = "garbage"
WrongShape(reply) ==
    /\ reply.found /\ reply.str.text = "json"
    /\ \/ reply.str.json.kind # "object"
       \/ reply.str.json.enabled.t # "boolean"
       \/ reply.str.json.version.t # "number"
       \/ ~reply.str.json.version.int
       \/ reply.str.json.version.n < 1
       \/ reply.str.json.enabledAt.t # "string"
Disabled(reply) ==
    /\ reply.found /\ reply.str.text = "json" /\ reply.str.json.kind = "object"
    /\ reply.str.json.enabled = BooleanField(FALSE)

\* C7: a call whose experiment directive is absent, not parseable, of the
\* wrong shape or disabled keeps the requested version and the caller's
\* forceRefresh; unless the caller forced it, it looks into the local cache,
\* and into the shared tier before any file when the local cache misses.
C7_NoOverride ==
    \A c \in Calls :
        LET call == calls[c]
        IN  (call.expChecked
                /\ (Absent(call.expReply) \/ NotParseable(call.expReply)
                        \/ WrongShape(call.expReply) \/ Disabled(call.expReply))) =>
                /\ call.version = call.requestedVersion
                /\ call.forceRefresh = call.callerForce
                /\ call.configId = buildConfigId(call.scope, call.module, call.userId,
                                                 call.profile, call.requestedVersion)
                /\ ~call.callerForce => HasEvent(call.trace, {"lru_get"})
                /\ call.callerForce => ~HasEvent(call.trace, {"lru_get", "redis_get"})
                /\ (~call.callerForce /\ call.expRead /\ HasEvent(call.trace, {"load"})) =>
                      HasEvent(call.trace, {"redis_get"})

\* C7 witness: a call read, from an available shared tier, an enabled
\* directive whose version has a fractional part, looked into both caches
\* and was served from the file of the requested version.
C7_Witness ==
    \E c \in Calls :
        /\ calls[c].expRead
        /\ calls[c].expReply.found
        /\ calls[c].expReply.str.text = "json"
        /\ calls[c].expReply.str.json.kind = "object"
        /\ calls[c].expReply.str.json.enabled = BooleanField(TRUE)
        /\ calls[c].expReply.str.json.version = FractionField(2)
        /\ calls[c].requestedVersion = 1
        /\ calls[c].served = "file"
        /\ HasEvent(calls[c].trace, {"lru_get"})
        /\ HasEvent(calls[c].trace, {"redis_get"})
        /\ calls[c].out.value.version = 1

(***************************************************************************)
(* The base fallback, checked under SpecBase.                              *)
(***************************************************************************)
\* C8: a loadConfig call with valid coordinates that was made after init()
\* succeeded, and during which the base file _default/_base.v1 was there and
\* readable throughout, does not fail with ConfigNotFoundError.  (Every
\* request of SpecBase has valid coordinates.)
C8_BaseEndsCascade ==
    \A c \in Calls :
        (calls[c].pc = "done" /\ calls[c].initAtStart /\ calls[c].baseReadable) =>
            calls[c].out.err # "ConfigNotFoundError"

\* C8 witness: such a call found none of the files before the base
\* fallback and was served the base file by the last step of its cascade.
C8_Witness ==
    \E c \in Calls :
        /\ calls[c].pc = "done"
        /\ calls[c].initAtStart /\ calls[c].baseReadable
        /\ calls[c].idx = Len(calls[c].steps)
        /\ calls[c].idx > 1
        /\ calls[c].out.kind = "value"
        /\ calls[c].out.value.doc = BasePath

(***************************************************************************)
(* The local cache, checked under SpecCache.                               *)
(***************************************************************************)
\* The last n elements of a sequence, all of it if it is shorter.
LastOf(seq, n) ==
    IF Len(seq) <= n THEN seq ELSE SubSeq(seq, Len(seq) - n + 1, Len(seq))

\* C10 as stated: as long as no get has met an expired entry, the keys of
\* the cache are exactly the maxSize most recently touched keys (set, or
\* returned by get), least recently touched first.
C10_LruOrder ==
    ~expired => [i \in 1..Len(lru) |-> lru[i].key] = LastOf(touched, MaxSize)

\* C11 as stated: whatever the capacity and the operations made, the cache
\* holds at most maxSize entries.  Checked under SpecOps.
C11_Capacity == Len(lru) <= maxSize

(***************************************************************************)
(* Expiry, checked under SpecTtl.                                          *)
(***************************************************************************)
\* C12: a get of a key whose entry is older than the TTL returns nothing,
\* removes the entry and counts one miss; a get of a key whose entry is at
\* most as old as the TTL returns the value stored and counts one hit.
C12_TtlExpiry ==
    [][(ops' = ops + 1 /\ lastOp'.op = "get" /\ CacheHas(lru, lastOp'.arg)) =>
          LET key == lastOp'.arg
              entry == CacheEntryOf(lru, key)
          IN  IF now - entry.timestamp > TtlMs
              THEN /\ ~lastOp'.hit
                   /\ ~CacheHas(lru', key)
                   /\ CacheKeys(lru') = CacheKeys(lru) \ {key}
                   /\ misses' = misses + 1
                   /\ hits' = hits
              ELSE /\ lastOp'.hit
                   /\ lastOp'.value = entry.value
                   /\ CacheHas(lru', key)
                   /\ hits' = hits + 1
                   /\ misses' = misses]_vars

\* C12 witness: the last operation was a get that found its entry expired
\* and removed it, after a get that had returned a value.
C12_Witness ==
    /\ lastOp.op = "get"
    /\ ~lastOp.hit
    /\ lastOp.count = 1
    /\ hits >= 1
    /\ misses >= 1

(***************************************************************************)
(* Invalidation and the counters, checked under SpecOps.                   *)
(***************************************************************************)
\* The step is a call of the cache method named.
OpStep(name) == ops' = ops + 1 /\ lastOp'.op = name

\* A pattern and a key of as many segments, each segment of the pattern
\* being "*" or the segment of the key.
SameArityMatch(pattern, key) ==
    /\ Len(Split(pattern)) = Len(Split(key))
    /\ \A i \in 1..Len(Split(pattern)) :
          Split(pattern)[i] \in {"*", Split(key)[i]}

\* A pattern and a key of at least as many segments, each segment of the
\* pattern being "*" or the segment of the key at its place.
PrefixMatch(pattern, key) ==
    /\ Len(Split(pattern)) <= Len(Split(key))
    /\ \A i \in 1..Len(Split(pattern)) :
          Split(pattern)[i] \in {"*", Split(key)[i]}

\* C13 as stated: invalidate removes exactly the entries whose key has the
\* number of segments of the pattern and matches it segment by segment, all
\* entries for the pattern "*"; a shorter pattern removes nothing.
C13_SameArityInvalidate ==
    [][OpStep("invalidate") =>
          /\ lru' = SelectSeq(lru, LAMBDA e :
                      ~(lastOp'.arg = "*" \/ SameArityMatch(lastOp'.arg, e.key)))
          /\ lastOp'.count = Len(lru) - Len(lru')]_vars

\* C13 amended: invalidate removes exactly the entries whose key has at
\* least as many segments as the pattern and matches it segment by segment
\* over the segments of the pattern (a shorter pattern removes the keys it
\* is a prefix of, a longer one removes nothing), all entries for the
\* pattern "*"; it keeps the others in their order and returns the number
\* removed.
C13_PrefixInvalidate ==
    [][OpStep("invalidate") =>
          /\ lru' = SelectSeq(lru, LAMBDA e :
                      ~(lastOp'.arg = "*" \/ PrefixMatch(lastOp'.arg, e.key)))
          /\ lastOp'.count = Len(lru) - Len(lru')]_vars

\* C13 witness: of the keys a:b:c, a:x:c and d:b:c the pattern a:*:c has
\* removed two and left d:b:c.
C13_Witness ==
    /\ lastOp.op = "invalidate"
    /\ lastOp.arg = "a:*:c"
    /\ lastOp.count = 2
    /\ CacheKeys(lru) = {"d:b:c"}

\* C14: since construction or the last resetStats, hits + misses is the
\* number of get calls and hits the number of them that returned a value;
\* set, has, delete, invalidate, clear and getStats change neither counter;
\* getStats reports the counters and hitRate = hits / (hits + misses) x 100,
\* and 0 when no get has been made.
C14_Accounting ==
    /\ [](/\ hits + misses = getCalls
          /\ hits = getValues
          /\ lastOp.op = "getStats" =>
                /\ lastOp.stats.hits = hits
                /\ lastOp.stats.misses = misses
                /\ lastOp.stats.hitRate.den > 0
                /\ IF hits + misses = 0
                   THEN lastOp.stats.hitRate.num = 0
                   ELSE lastOp.stats.hitRate.num * (hits + misses)
                            = hits * 100 * lastOp.stats.hitRate.den)
    /\ [][(\E name \in {"set", "has", "delete", "invalidate", "clear", "getStats"} :
              OpStep(name)) => UNCHANGED <<hits, misses>>]_vars
    /\ [][OpStep("get") =>
              /\ hits' + misses' = hits + misses + 1
              /\ hits' = IF lastOp'.hit THEN hits + 1 ELSE hits]_vars

\* C14 witness: getStats after one get that returned a value and one that
\* did not reports a hit rate of 50.
C14_Witness ==
    /\ lastOp.op = "getStats"
    /\ hits = 1
    /\ misses = 1
    /\ lastOp.stats.hitRate.num = 50 * lastOp.stats.hitRate.den


(***************************************************************************)
(* The same request made twice: a loader with its shared tier, files that  *)
(* do not change, no experiment, a shared tier nobody else writes to.      *)
(* Time passes between the calls and shared-tier commands may fail, so the *)
(* second call is served by the local cache, the shared tier or the files. *)
(***************************************************************************)
SameRequests ==
    {Request(NotGiven, "hrkg", NotGiven, "extraction", NoVersion, forceRefresh) :
        forceRefresh \in BOOLEAN}

SamePaths == RelevantPaths(Request(NotGiven, "hrkg", NotGiven, "extraction", NoVersion, FALSE))

\* The trees: valid documents, some of them holding a number that is not
\* finite; the module's file there or not, the files in between missing.
SameTrees ==
    {f \in [SamePaths -> {"ok", "nonfinite", "absent"}] :
        /\ f[BasePath] # "absent"
        /\ \A p \in SamePaths : f[p] # "absent" => Includes(p, "hrkg") \/ p = BasePath}

InitSame ==
    /\ FreshEngine
    /\ store = << >>
    /\ redisUrl = TRUE
    /\ files \in SameTrees

SameNext(c) ==
    /\ CallerIdle
    /\ \A d \in Calls : d < c => calls[d].pc = "done"
    /\ \E o \in SameRequests : LoadStart(c, o)

\* The local entries outlive their TTL while no call is in flight.
SameElapse == CallerIdle /\ Elapse

NextSame ==
    \/ LoadInit
    \/ InitFileDone
    \/ \E ok \in BOOLEAN : InitConnectDone(ok)
    \/ \E pong \in BOOLEAN : InitPingDone(pong)
    \/ SameElapse
    \/ \E c \in Calls : SameNext(c)
    \/ \E c \in Calls, failed \in BOOLEAN : ExpDone(c, failed)
    \/ \E c \in Calls, failed \in BOOLEAN : RedisGetDone(c, failed)
    \/ \E c \in Calls : FileTry(c)
    \/ \E c \in Calls, failed \in BOOLEAN : RedisSetDone(c, failed)

SpecSame == InitSame /\ [][NextSame]_vars

\* Two finished calls, the second made after the first, both returning a value.
BothReturned(c, d) ==
    /\ c < d
    /\ calls[c].pc = "done" /\ calls[c].out.kind = "value"
    /\ calls[d].pc = "done" /\ calls[d].out.kind = "value"

\* C15: two loadConfig calls with the same coordinates, files unchanged, no
\* experiment, no invalidation and a shared tier written by this engine only,
\* return the same ResolvedConfig content, whichever tier serves the second.
C15_Idempotent ==
    \A c, d \in Calls : BothReturned(c, d) => calls[d].out.value = calls[c].out.value

\* The same for documents all of whose numbers are finite.
C15_IdempotentFinite ==
    \A c, d \in Calls :
        BothReturned(c, d) /\ (\A p \in DOMAIN files : files[p] # "nonfinite")
            => calls[d].out.value = calls[c].out.value

\* Both calls return, the second served by each of the tiers in turn.
C15_ServedLocal == BothReturned(1, 2) /\ calls[2].served = "local"
C15_ServedShared == BothReturned(1, 2) /\ calls[2].served = "shared"
C15_ServedFile == BothReturned(1, 2) /\ calls[2].served = "file"


(***************************************************************************)
(* The fallback warning: a loader without a shared tier, calls made one    *)
(* after the other, on an engine that is new or that has already warned    *)
(* for MAX_WARNED_CONFIG_IDS requested identifiers.                        *)
(***************************************************************************)
WarnRequests ==
    {Request(NotGiven, "hrkg", NotGiven, profile, NoVersion, forceRefresh) :
        profile \in {"extraction", "_base_low"}, forceRefresh \in BOOLEAN}
      \cup {Request(NotGiven, "hrkg", NotGiven, profile, 2, forceRefresh) :
        profile \in {"extraction", "_base"}, forceRefresh \in BOOLEAN}

WarnPaths == UNION {RelevantPaths(o) : o \in WarnRequests}

\* The trees: the base file valid; version 1 of the profile's file there or
\* not for the module and for the default module; no file of version 2 but,
\* possibly, the default module's base profile.
WarnVaried ==
    {buildConfigFilePath(ConfigDir, "hrkg", "extraction", 1),
     buildConfigFilePath(ConfigDir, "_default", "extraction", 1),
     buildConfigFilePath(ConfigDir, "_default", "_base", 2)}

WarnTrees ==
    {f \in [WarnPaths -> {"ok", "absent"}] :
        /\ f[BasePath] = "ok"
        /\ \A p \in WarnPaths \ (WarnVaried \cup {BasePath}) : f[p] = "absent"}

\* The requested identifiers of MAX_WARNED_CONFIG_IDS earlier forced calls,
\* for versions 2, 3, ... of the profile, each won by the base file.
PriorIds ==
    [i \in 1..MAX_WARNED_CONFIG_IDS |->
        buildConfigId(DEFAULT_SCOPE, "hrkg", "_", "extraction", i + 1)]

\* What each of those calls returned and stored.
BaseResult ==
    ResolvedConfig(BasePath, buildConfigId("_default", "_default", "_", "_base", 1),
                   "_default", "_default", "_base", 1)

\* The local cache after them: the entries of the last maxSize calls.
PriorCache ==
    [i \in 1..MaxSize |->
        CacheEntry(PriorIds[MAX_WARNED_CONFIG_IDS - MaxSize + i],
                   JsonStringify(BaseResult), 0)]

InitWarn ==
    /\ FreshEngine
    /\ store = << >>
    /\ redisUrl = FALSE
    /\ files \in WarnTrees

\* The engine after the earlier calls, none of their files there.
InitWarned ==
    /\ maxSize = MaxSize
    /\ retry = NoRetry
    /\ initCalls = << >>
    /\ inits = <<"ok">>
    /\ lastOp = NoOp
    /\ getCalls = 0
    /\ getValues = 0
    /\ lru = PriorCache
    /\ hits = 0
    /\ misses = 0
    /\ now = 0
    /\ touched = << >>
    /\ expired = FALSE
    /\ ops = 0
    /\ warnedConfigIds = PriorIds
    /\ warnLog = PriorIds
    /\ redisClient = FALSE
    /\ redisAvailable = FALSE
    /\ conn = FALSE
    /\ initialized = TRUE
    /\ initPc = "idle"
    /\ calls = [c \in Calls |-> IdleCall]
    /\ store = << >>
    /\ redisUrl = FALSE
    /\ files \in {f \in WarnTrees : f[buildConfigFilePath(ConfigDir, "_default", "_base", 2)] = "absent"}

WarnNext(c) ==
    /\ CallerIdle
    /\ \A d \in Calls : d < c => calls[d].pc = "done"
    /\ \E o \in WarnRequests : LoadStart(c, o)

NextWarn ==
    \/ LoadInit
    \/ InitFileDone
    \/ \E c \in Calls : WarnNext(c)
    \/ \E c \in Calls : ExpDone(c, FALSE)
    \/ \E c \in Calls : FileTry(c)

SpecWarn == (InitWarn \/ InitWarned) /\ [][NextWarn]_vars

\* How many times the warning was emitted for the identifier.
Occurrences(log, id) == Cardinality({i \in 1..Len(log) : log[i] = id})

\* C16: over any sequence of loadConfig calls on one engine, whatever the
\* number of distinct requested identifiers, forced requests included, the
\* fallback warning for a requested identifier is emitted at most once.
C16_AtMostOnce ==
    \A c \in Calls :
        calls[c].originalConfigId # "" => Occurrences(warnLog, calls[c].originalConfigId) <= 1

\* The same while no more than MAX_WARNED_CONFIG_IDS identifiers were warned for.
C16_AtMostOnceWhileRemembered ==
    Len(warnLog) <= MAX_WARNED_CONFIG_IDS => C16_AtMostOnce

\* A second call for an identifier already warned for, with no new warning.
C16_Repeated ==
    /\ calls[1].pc = "done" /\ calls[2].pc = "done"
    /\ calls[1].originalConfigId = calls[2].originalConfigId
    /\ calls[2].served = "file"
    /\ Occurrences(warnLog, calls[2].originalConfigId) = 1


\* The step in which the cascade of call c is won.
WonNow(c) == calls[c].result = JsonNull /\ calls'[c].result # JsonNull

\* C17 as stated: whenever a cascade resolution is won by a candidate whose
\* coordinate differs from the requested one and no warning has yet been
\* emitted for the requested identifier, a warning naming it is emitted.
C17_WarnsOnAnyFallback ==
    [][\A c \in Calls :
          LET id == calls'[c].originalConfigId
          IN  WonNow(c) /\ calls'[c].result.configId # id /\ ~InSeq(warnLog, id)
                  => warnLog' = Append(warnLog, id)]_vars

\* C17: a cascade resolution emits the fallback warning, naming the requested
\* identifier, exactly when it is won by the profile _base for a request of
\* another profile and the requested identifier is not in the warned set; a
\* resolution won at any other level emits nothing.
C17_WarnsOnBaseFallback ==
    [][\A c \in Calls :
          LET id == calls'[c].originalConfigId
          IN  WonNow(c) =>
                  IF /\ calls'[c].result.profile = "_base"
                     /\ calls'[c].profile # "_base"
                     /\ ~InSeq(warnedConfigIds, id)
                  THEN warnLog' = Append(warnLog, id)
                  ELSE warnLog' = warnLog]_vars

\* A request of a profile won by the base file, its one warning emitted.
C17_Witness ==
    /\ calls[1].pc = "done" /\ calls[1].served = "file"
    /\ calls[1].profile = "extraction"
    /\ calls[1].result.profile = "_base"
    /\ warnLog = <<calls[1].originalConfigId>>

\* A request won by the default module's file of the same profile: a less
\* specific level, and no warning.
C17_SilentFallback ==
    /\ calls[1].pc = "done" /\ calls[1].served = "file"
    /\ calls[1].result.module = "_default"
    /\ calls[1].result.profile = "extraction"
    /\ warnLog = << >>


(***************************************************************************)
(* Concurrent calls for one key: the loader of SpecSame, whose calls are   *)
(* started while others are suspended at any of their awaits.              *)
(***************************************************************************)
\* A call is started once init() has returned, whatever the other calls do.
RaceNext(c) ==
    /\ initPc = "idle"
    /\ \A d \in Calls : d < c => calls[d].pc # "idle"
    /\ \E o \in SameRequests : LoadStart(c, o)

NextRace ==
    \/ LoadInit
    \/ InitFileDone
    \/ \E ok \in BOOLEAN : InitConnectDone(ok)
    \/ \E pong \in BOOLEAN : InitPingDone(pong)
    \/ \E c \in Calls : RaceNext(c)
    \/ \E c \in Calls, failed \in BOOLEAN : ExpDone(c, failed)
    \/ \E c \in Calls, failed \in BOOLEAN : RedisGetDone(c, failed)
    \/ \E c \in Calls : FileTry(c)
    \/ \E c \in Calls, failed \in BOOLEAN : RedisSetDone(c, failed)

SpecRace == InitSame /\ [][NextRace]_vars

\* Every call has returned.
AllDone == \A c \in Calls : calls[c].pc = "done"

\* The calls returned one value, and the local cache holds one entry, under
\* the key of the request, with that value.
OneValueOneEntry ==
    /\ \A c \in Calls : calls[c].out = calls[1].out /\ calls[c].out.kind = "value"
    /\ Len(lru) = 1
    /\ lru[1].key = LoadConfigId
    /\ JsonParse(lru[1].value) = [ok |-> TRUE, json |-> calls[1].out.value]

\* The shared tier holds nothing but, possibly, that value under that key.
OnlySharedWrites ==
    \/ store = << >>
    \/ /\ DOMAIN store = {LoadConfigKey}
       /\ JsonParse(store[LoadConfigKey]) = [ok |-> TRUE, json |-> calls[1].out.value]

\* C18: loadConfig calls for the same key interleaved at their suspension
\* points, files unchanged, no experiment: every call returns the same
\* ResolvedConfig, the local cache ends with exactly one entry for the key,
\* holding that value, and nothing else is left behind but redundant shared
\* writes of it.
C18_Concurrent == AllDone => OneValueOneEntry /\ OnlySharedWrites

\* The same for documents all of whose numbers are finite.
C18_ConcurrentFinite ==
    AllDone /\ (\A p \in DOMAIN files : files[p] # "nonfinite")
        => OneValueOneEntry /\ OnlySharedWrites

\* Two calls both past the local cache before either has stored its result:
\* both read the files.
C18_BothRead ==
    /\ AllDone
    /\ \A c \in Calls : calls[c].served = "file" /\ ~calls[c].callerForce


(***************************************************************************)
(* init(): a loader with or without a shared tier, whose base file is in   *)
(* any condition and may change, init() called again and again, the        *)
(* connection events in between.                                           *)
(***************************************************************************)
InitStatuses == FileStatus \cup {"nonfinite"}

InitInit ==
    /\ FreshEngine
    /\ store = << >>
    /\ redisUrl \in BOOLEAN
    /\ files \in [{BasePath} -> InitStatuses]

NextInit ==
    \/ InitStart
    \/ InitFileDone
    \/ \E ok \in BOOLEAN : InitConnectDone(ok)
    \/ \E pong \in BOOLEAN : InitPingDone(pong)
    \/ RedisConnectEvent
    \/ RedisErrorEvent
    \/ RedisCloseEvent
    \/ \E status \in InitStatuses : FileChange(BasePath, status)

SpecInit == InitInit /\ [][NextInit]_vars

\* Everything but the record of the init() calls.
loaderFields == <<files, cacheVars, cacheHistory, engineVars, maxSize, retry, initCalls, cacheAudit>>

\* The step in which init() is called.
InitCalled == Len(inits') = Len(inits) + 1

\* C19: init() is one-time and idempotent: after a successful init a further
\* init() is a no-op, with no file read, no connection attempt and every
\* field unchanged; an initialized loader is never reading the base file or
\* connecting.
C19_InitOnce ==
    /\ [](initialized => initPc = "idle")
    /\ [][InitCalled /\ initialized => UNCHANGED loaderFields]_vars

\* init() called again after it succeeded, the shared tier lost in between.
C19_Witness ==
    /\ Len(inits) = 2
    /\ inits[1] = "ok"
    /\ inits[2] = "noop"
    /\ initialized
    /\ ~redisAvailable
    /\ redisUrl

\* The base file is a valid document.
BaseValid(fs) == StatusOf(fs, BasePath) \in {"ok", "nonfinite"}

InitErrors == {"ConfigNotFoundError", "InvalidConfigError", "SecurityError", "FsError"}

\* C20: init() verifies the base fallback before it touches the shared tier:
\* when the base file is missing or invalid, init() throws, no connection is
\* attempted and the loader stays uninitialized; a connection is attempted
\* only in the step that found the base file valid; an init() on a loader
\* that is not initialized runs the check again.
C20_BaseFirst ==
    [][/\ (initPc = "file" /\ initPc' # "file" /\ ~BaseValid(files)) =>
              /\ initPc' = "idle"
              /\ inits'[Len(inits')] \in InitErrors
              /\ ~initialized'
              /\ UNCHANGED <<redisClient, redisAvailable, conn>>
       /\ (initPc # "connect" /\ initPc' = "connect") => BaseValid(files)
       /\ (~initialized /\ initialized' /\ initPc = "file") => BaseValid(files)
       /\ (InitCalled /\ ~initialized) => initPc' = "file"]_vars

\* An init() that failed on a missing base file, and, the file provided, a
\* second one that ran the check again and succeeded.
C20_Witness ==
    /\ Len(inits) = 2
    /\ inits[1] = "ConfigNotFoundError"
    /\ inits[2] = "ok"
    /\ initialized
    /\ redisUrl


(***************************************************************************)
(* close(): a loader with or without a shared tier that is initialized,    *)
(* serves calls one after the other, is closed, and closed again; the      *)
(* connection events in between.                                           *)
(***************************************************************************)
CloseRequests == {Request(NotGiven, "hrkg", NotGiven, "extraction", NoVersion, FALSE)}

InitClose ==
    /\ FreshEngine
    /\ store = << >>
    /\ redisUrl \in BOOLEAN
    /\ files \in {f \in [UNION {RelevantPaths(o) : o \in CloseRequests} -> {"ok", "absent"}] :
                     f[BasePath] = "ok"}

\* close() is called with no operation in flight.
CloseCall == CallerIdle /\ CloseStart

CloseNext(c) ==
    /\ CallerIdle
    /\ \A d \in Calls : d < c => calls[d].pc = "done"
    /\ \E o \in CloseRequests : LoadStart(c, o)

\* init() is called with no operation in flight.
CloseInit == CallerIdle /\ InitStart

NextClose ==
    \/ CloseInit
    \/ InitFileDone
    \/ \E ok \in BOOLEAN : InitConnectDone(ok)
    \/ \E pong \in BOOLEAN : InitPingDone(pong)
    \/ RedisConnectEvent
    \/ RedisErrorEvent
    \/ RedisCloseEvent
    \/ CloseCall
    \/ \E failed \in BOOLEAN : CloseQuitDone(failed)
    \/ \E c \in Calls : CloseNext(c)
    \/ \E c \in Calls, failed \in BOOLEAN : ExpDone(c, failed)
    \/ \E c \in Calls, failed \in BOOLEAN : RedisGetDone(c, failed)
    \/ \E c \in Calls : FileTry(c)
    \/ \E c \in Calls, failed \in BOOLEAN : RedisSetDone(c, failed)

SpecClose == InitClose /\ [][NextClose]_vars

\* The step in which a close() call returns.
CloseReturns ==
    /\ Len(inits') > 0
    /\ inits'[Len(inits')] = "closed"
    /\ inits' # inits

\* The local state close() clears.
ClosedLocal(cache, warned, client, init) ==
    cache = << >> /\ warned = << >> /\ ~client /\ ~init

\* The state the claim gives a closed engine.
IsClosed == ClosedLocal(lru, warnedConfigIds, redisClient, initialized) /\ ~redisAvailable

\* C21: close() with no operation in flight leaves the engine with an empty
\* local cache, an empty warned set, no shared-tier client, the availability
\* flag false and initialized false, whether quit() fails or not; a second
\* close() leaves that state unchanged.
C21_CloseClears ==
    [][CloseReturns =>
          /\ ClosedLocal(lru', warnedConfigIds', redisClient', initialized')
          /\ ~redisAvailable'
          /\ IsClosed => UNCHANGED <<lru, warnedConfigIds, redisClient, redisAvailable,
                                      initialized>>]_vars

\* The same without the availability flag where no client was held.
C21_CloseClearsHeld ==
    [][CloseReturns =>
          /\ ClosedLocal(lru', warnedConfigIds', redisClient', initialized')
          /\ (redisClient \/ initPc = "quit") => ~redisAvailable'
          /\ IsClosed => UNCHANGED <<lru, warnedConfigIds, redisClient, redisAvailable,
                                      initialized>>]_vars

\* close() has emptied a local cache and a warned set that held something,
\* and was called again.
C21_ClosedTwice ==
    /\ inits = <<"closed", "closed">>
    /\ warnLog # << >>
    /\ ClosedLocal(lru, warnedConfigIds, redisClient, initialized)


(***************************************************************************)
(* The userId of a request: a loader without a shared tier, calls made one *)
(* after the other for one module and profile, with every kind of userId.  *)
(***************************************************************************)
\* A name of 65 characters.
LongName == "aaaaaaaaaaaaaaaaaaaaaaaaaaaaaaaaaaaaaaaaaaaaaaaaaaaaaaaaaaaaaaaaa"

\* Malformed userIds: empty, too long, with a dangerous sequence, with a
\* character the pattern does not allow.
MalformedUserIds == {"", LongName, "a/b", "a..b", "~u", "u 1", "u.1"}

UserRequests ==
    {Request(NotGiven, "hrkg", userId, "extraction", NoVersion, forceRefresh) :
        userId \in {NotGiven, "_", "u1"} \cup MalformedUserIds, forceRefresh \in BOOLEAN}

UserTrees ==
    {f \in [RelevantPaths(Request(NotGiven, "hrkg", NotGiven, "extraction", NoVersion, FALSE))
                -> {"ok", "absent"}] : f[BasePath] = "ok"}

InitUser ==
    /\ FreshEngine
    /\ store = << >>
    /\ redisUrl = FALSE
    /\ files \in UserTrees

UserNext(c) ==
    /\ CallerIdle
    /\ \A d \in Calls : d < c => calls[d].pc = "done"
    /\ \E o \in UserRequests : LoadStart(c, o)

NextUser ==
    \/ \E c \in Calls : UserNext(c)
    \/ \E c \in Calls : ExpDone(c, FALSE)
    \/ \E c \in Calls : FileTry(c)

SpecUser == InitUser /\ [][NextUser]_vars

\* The userId fails validation, in the words of the claim.
Malformed(userId) ==
    \/ userId = ""
    \/ Len(userId) > 64
    \/ \E d \in {"/", "\\", "..", "~", "$", GraveAccent} : Includes(userId, d)
    \/ \E i \in 1..Len(userId) :
          SubSeq(userId, i, i) \notin Lower \cup Upper \cup Digit \cup {"_", "-"}

\* C22: a malformed userId never fails resolution: the call runs with the
\* canonical identifier and the cascade candidates of the same request with
\* userId "_", raises nothing the request with "_" does not raise, and
\* returns what that request returns.
C22_MalformedUserId ==
    \A c \in Calls :
        (calls[c].pc # "idle" /\ Malformed(calls[c].requestedUserId)) =>
            /\ calls[c].userId = "_"
            /\ calls[c].pc \in {"file", "done"} =>
                  /\ calls[c].configId =
                        buildConfigId(calls[c].scope, calls[c].module, "_",
                                      calls[c].profile, calls[c].version)
                  /\ calls[c].served = "local" \/ calls[c].steps =
                        generateCascadeSteps(calls[c].scope, calls[c].module, "_",
                                             calls[c].profile, calls[c].version)
            /\ \A d \in Calls :
                  (calls[c].pc = "done" /\ calls[d].pc = "done"
                      /\ calls[d].requestedUserId = "_") =>
                      calls[c].out = calls[d].out

\* A call with a malformed userId and a call with "_", both resolved from
\* the files, with one result.
C22_Witness ==
    /\ calls[1].pc = "done" /\ calls[2].pc = "done"
    /\ calls[1].requestedUserId = "a/b"
    /\ calls[2].requestedUserId = "_"
    /\ calls[1].served = "file" /\ calls[2].served = "file"
    /\ calls[1].out.kind = "value"
    /\ calls[1].out = calls[2].out


(***************************************************************************)
(* The names of a request: the loader of SpecUser, each request with one   *)
(* of its scope, module and profile taken from a set of names with every   *)
(* defect, alone and combined, the two others valid.                       *)
(***************************************************************************)
\* A name of 65 characters with a dangerous sequence in it.
LongDangerousName == "../" \o SubSeq(LongName, 1, 62)

NameSet ==
    {"hrkg", "Hrkg", "h-1", "", LongName, LongDangerousName,
     "../etc", "a/b", "a\\b", "a~b", "a$b", "a" \o GraveAccent \o "b"}

NameRequests ==
    {Request(name, "hrkg", NotGiven, "extraction", NoVersion, FALSE) : name \in NameSet}
      \cup {Request(NotGiven, name, NotGiven, "extraction", NoVersion, FALSE) : name \in NameSet}
      \cup {Request(NotGiven, "hrkg", NotGiven, name, NoVersion, FALSE) : name \in NameSet}
      \cup {Request(NotGiven, "hrkg", userId, "extraction", NoVersion, FALSE) :
               userId \in MalformedUserIds}

NamesNext(c) ==
    /\ CallerIdle
    /\ \A d \in Calls : d < c => calls[d].pc = "done"
    /\ \E o \in NameRequests : LoadStart(c, o)

NextNames ==
    \/ \E c \in Calls : NamesNext(c)
    \/ \E c \in Calls : ExpDone(c, FALSE)
    \/ \E c \in Calls : FileTry(c)

SpecNames == InitUser /\ [][NextNames]_vars

\* The name holds one of the dangerous sequences.
HasDangerous(name) ==
    \E d \in {"/", "\\", "..", "~", "$", GraveAccent} : Includes(name, d)

\* The scope, module and profile of a call that is not the usual one, with
\* the pattern it has to match.
OddNames(call) ==
    (IF call.scope # DEFAULT_SCOPE
     THEN {[name |-> call.scope, matches |-> VALID_SCOPE_PATTERN(call.scope)]} ELSE {})
      \cup (IF call.module # "hrkg"
            THEN {[name |-> call.module, matches |-> VALID_MODULE_PATTERN(call.module)]} ELSE {})
      \cup (IF call.profile # "extraction"
            THEN {[name |-> call.profile, matches |-> VALID_PROFILE_PATTERN(call.profile)]} ELSE {})

\* What the claim gives a finished call for the names in a set.
Verdict(call, names) ==
    \A n \in names :
        IF HasDangerous(n.name) THEN call.out.err = "SecurityError"
        ELSE IF ~n.matches THEN call.out.err = "Error"
        ELSE call.out.kind = "value"

\* C23: a scope, module or profile with a dangerous sequence is rejected with
\* SecurityError whatever its other defects (its length for one); a name
\* without one that violates the pattern is rejected with a format error; a
\* malformed userId raises nothing.
C23_SecurityFirst ==
    \A c \in Calls :
        calls[c].pc = "done" =>
            /\ Verdict(calls[c], OddNames(calls[c]))
            /\ OddNames(calls[c]) = {} => calls[c].out.kind = "value"

\* The same for names of at most MAX_NAME_LENGTH characters.
C23_SecurityFirstWithinLength ==
    \A c \in Calls :
        calls[c].pc = "done" =>
            /\ Verdict(calls[c], {n \in OddNames(calls[c]) : Len(n.name) <= MAX_NAME_LENGTH})
            /\ OddNames(calls[c]) = {} => calls[c].out.kind = "value"

\* A module with a dangerous sequence rejected with SecurityError, an
\* uppercase one with a format error.
C23_Rejections ==
    /\ calls[1].pc = "done" /\ calls[1].module = "../etc"
    /\ calls[1].out.err = "SecurityError"
    /\ calls[2].pc = "done" /\ calls[2].module = "Hrkg"
    /\ calls[2].out.err = "Error"


(***************************************************************************)
(* The errors a caller of loadConfig sees, checked under SpecResolve (a    *)
(* file of the cascade in any status) and under SpecNames (names with any  *)
(* defect).                                                                *)
(***************************************************************************)
\* The three error classes of the loader: NotFound, InvalidConfiguration and
\* SecurityViolation.
FatalKinds == {"ConfigNotFoundError", "InvalidConfigError", "SecurityError"}

\* C24: every outcome of loadConfig is a ResolvedConfig or an error of one of
\* the three kinds NotFound, InvalidConfiguration, SecurityViolation; no other
\* error reaches the caller, whatever the names, the version and the read
\* errors of the files.
C24_ThreeKinds ==
    \A c \in Calls :
        calls[c].pc = "done" =>
            \/ calls[c].out.kind = "value"
            \/ calls[c].out.kind = "error" /\ calls[c].out.err \in FatalKinds


(***************************************************************************)
(* Requests that fail validation, made of a loader with its shared tier,   *)
(* in which another writer has stored a document under the key of any of   *)
(* the requests.                                                           *)
(***************************************************************************)
InvalidRequests ==
    {Request(scope, module, NotGiven, "extraction", version, FALSE) :
        scope \in {NotGiven, "a/b"},
        module \in {"hrkg", "Hrkg", "../etc"},
        version \in {NoVersion, 0}}

\* The prefixed identifier loadConfig looks up in the shared tier.
RequestKey(o) ==
    buildRedisKey(buildConfigId(IF "scope" \in o.given THEN o.scope ELSE DEFAULT_SCOPE,
                                o.module, "_", o.profile,
                                IF "version" \in o.given THEN o.version ELSE 1))

\* A document as tryStoreInRedis writes one.
StoredDocument ==
    JsonStringify(ResolvedConfig(buildConfigFilePath(ConfigDir, "hrkg", "extraction", 1),
                                 LoadConfigId, DEFAULT_SCOPE, "hrkg", "extraction", 1))

InvalidNext(c) ==
    /\ CallerIdle
    /\ \A d \in Calls : d < c => calls[d].pc = "done"
    /\ \E o \in InvalidRequests : LoadStart(c, o)

InvalidWrite == \E o \in InvalidRequests : SharedWrite(RequestKey(o), StoredDocument)

NextInvalid ==
    \/ LoadInit
    \/ InitFileDone
    \/ \E ok \in BOOLEAN : InitConnectDone(ok)
    \/ \E pong \in BOOLEAN : InitPingDone(pong)
    \/ InvalidWrite
    \/ \E c \in Calls : InvalidNext(c)
    \/ \E c \in Calls, failed \in BOOLEAN : ExpDone(c, failed)
    \/ \E c \in Calls, failed \in BOOLEAN : RedisGetDone(c, failed)
    \/ \E c \in Calls : FileTry(c)
    \/ \E c \in Calls, failed \in BOOLEAN : RedisSetDone(c, failed)

SpecInvalid == InitLoad /\ [][NextInvalid]_vars

\* The scope, module, profile or version the call was made with fails
\* validation.
FailsValidation(call) ==
    ValidateInputs(call.scope, call.module, call.profile, call.requestedVersion) # "ok"

\* C25: a loadConfig call whose scope, module, profile or version fails
\* validation raises and returns no ResolvedConfig, whatever the local cache
\* and the shared tier hold.
C25_ValidationAborts ==
    \A c \in Calls :
        (calls[c].pc = "done" /\ FailsValidation(calls[c])) => calls[c].out.kind = "error"

\* The same for the calls that neither cache has served.
C25_ValidationAbortsCascade ==
    \A c \in Calls :
        (calls[c].pc = "done" /\ FailsValidation(calls[c])
            /\ calls[c].served \notin {"local", "shared"}) =>
                /\ calls[c].out.kind = "error"
                /\ EventsOf(calls[c].trace, "load") = << >>

\* A call that fails validation and raises while the shared tier is connected
\* and holds a document.
C25_Raised ==
    /\ calls[1].pc = "done"
    /\ FailsValidation(calls[1])
    /\ calls[1].out.kind = "error"
    /\ EventsOf(calls[1].trace, "redis_get") # << >>
    /\ store # << >>


(***************************************************************************)
(* The user level of the cascade, checked under SpecResolve.               *)
(***************************************************************************)
\* The call was made for a user, and the file of the module level is valid.
ForUserOfModule(call) ==
    /\ call.pc = "done"
    /\ call.served = "file"
    /\ call.userId # "_"
    /\ StepStatus(CascadeStep(call.scope, call.module, "_", call.profile, call.version)) = "ok"

ModuleLevelId(call) ==
    buildConfigId(call.scope, call.module, "_", call.profile, call.version)

\* C26: a request with a real userId, where the module-level file exists, is
\* reported not found at level 1 (scope:module:userId:profile:vN) and resolves
\* at level 2, with the identifier scope:module:_:profile:vN.
C26_ResolvesAtModuleLevel ==
    \A c \in Calls :
        ForUserOfModule(calls[c]) =>
            /\ calls[c].out.kind = "value"
            /\ calls[c].out.value.configId = ModuleLevelId(calls[c])
            /\ Len(EventsOf(calls[c].trace, "load")) = 2

\* What the loader does for such a request: level 1 loads the file of the
\* module and the identifier of the result is that of the request.
C26_ResolvesAtUserLevel ==
    \A c \in Calls :
        ForUserOfModule(calls[c]) =>
            /\ calls[c].out.kind = "value"
            /\ calls[c].out.value.configId = calls[c].originalConfigId
            /\ calls[c].out.value.doc
                 = buildConfigFilePath(ConfigDir, calls[c].module, calls[c].profile,
                                       calls[c].version)
            /\ Len(EventsOf(calls[c].trace, "load")) = 1

C26_UserRequestServed ==
    /\ ForUserOfModule(calls[1])
    /\ calls[1].module = "hrkg"
    /\ calls[1].userId = "u1"


(***************************************************************************)
(* The write-back of a result of the cascade, checked under SpecLoad.      *)
(***************************************************************************)
\* The call returns in this step.
ReturnsNow(c) == calls[c].pc # "done" /\ calls'[c].pc = "done"

\* The local cache holds the string under the key.
LocalHolds(cache, key, str) ==
    CacheHas(cache, key) /\ CacheEntryOf(cache, key).value = str

\* The position of the first event of a kind in a trace, 0 if there is none.
FirstEvent(trace, kind) ==
    IF \E i \in 1..Len(trace) : trace[i][1] = kind
    THEN CHOOSE i \in 1..Len(trace) :
            /\ trace[i][1] = kind
            /\ \A j \in 1..(i - 1) : trace[j][1] # kind
    ELSE 0

\* C27: a result of the cascade is stored, serialized, in the local cache
\* under the identifier of the request (not the resolved one) before the
\* write to the shared tier is attempted; when the shared tier is available
\* and its write succeeds the result is stored there under the prefixed
\* identifier of the request with the configured TTL, and both tiers hold it
\* when the call returns.
C27_WriteBack ==
    [][\A c \in Calls :
          (ReturnsNow(c) /\ calls'[c].served = "file") =>
              LET call == calls'[c]
                  serialized == JsonStringify(call.out.value)
                  trace == call.trace
              IN  /\ LocalHolds(lru', call.configId, serialized)
                  /\ Event("lru_set", call.configId) \in {trace[i] : i \in 1..Len(trace)}
                  /\ FirstEvent(trace, "redis_set") # 0 =>
                        /\ FirstEvent(trace, "lru_set") < FirstEvent(trace, "redis_set")
                        /\ trace[FirstEvent(trace, "redis_set")]
                             = Event("redis_set", buildRedisKey(call.configId))
                        /\ call.setexTtl = DEFAULT_REDIS_TTL_SECONDS
                  /\ RedisSetDone(c, FALSE) =>
                        /\ RedisGet(store', buildRedisKey(call.configId))
                             = [found |-> TRUE, str |-> serialized]
                        /\ LocalHolds(lru', call.configId, serialized)]_vars

\* A call resolved by a fallback has returned with both tiers holding its
\* result under the identifier of the request.
C27_Witness ==
    LET call == calls[1]
    IN  /\ call.pc = "done"
        /\ call.served = "file"
        /\ call.out.value.configId # call.configId
        /\ EventsOf(call.trace, "redis_set") # << >>
        /\ LocalHolds(lru, call.configId, JsonStringify(call.out.value))
        /\ RedisGet(store, buildRedisKey(call.configId))
             = [found |-> TRUE, str |-> JsonStringify(call.out.value)]


(***************************************************************************)
(* The promotion of a hit of the shared tier, checked under SpecLoad.      *)
(***************************************************************************)
\* C28: an unforced call that misses the local cache and finds its key in the
\* shared tier stores the value in the local cache under the identifier of
\* the request and returns it, with no file read and no write to the shared
\* tier; the next unforced request for the same identifier is a local hit.
C28_Promotion ==
    [][\A c \in Calls :
          /\ (ReturnsNow(c) /\ calls'[c].served = "shared") =>
                LET call == calls'[c]
                IN  /\ ~call.forceRefresh
                    /\ call.out.kind = "value"
                    /\ LocalHolds(lru', call.configId, JsonStringify(call.out.value))
                    /\ EventsOf(call.trace, "lru_get") = <<Event("lru_get", call.configId)>>
                    /\ EventsOf(call.trace, "load") = << >>
                    /\ EventsOf(call.trace, "read") = << >>
                    /\ EventsOf(call.trace, "redis_set") = << >>
                    /\ store' = store
          /\ (/\ ReturnsNow(c) /\ c > 1
              /\ calls[c - 1].served = "shared"
              /\ calls'[c].configId = calls[c - 1].configId
              /\ ~calls'[c].forceRefresh) =>
                /\ calls'[c].served = "local"
                /\ calls'[c].out = calls[c - 1].out]_vars

\* A call served by the shared tier, and the next one by the local cache.
C28_Witness ==
    /\ calls[1].pc = "done" /\ calls[1].served = "shared"
    /\ calls[2].pc = "done" /\ calls[2].served = "local"
    /\ calls[2].configId = calls[1].configId


(***************************************************************************)
(* What a failing call leaves behind, checked under SpecLoad.              *)
(***************************************************************************)
Entries(cache) == {cache[i] : i \in 1..Len(cache)}
Members(seq) == {seq[i] : i \in 1..Len(seq)}

\* The step is one of call c and adds or overwrites an entry of the local
\* cache or of the shared tier, or adds an identifier to the warned set.
StoresNow(c) ==
    /\ calls'[c] # calls[c]
    /\ \/ ~(Entries(lru') \subseteq Entries(lru))
       \/ \E k \in DOMAIN store' : k \notin DOMAIN store \/ store'[k] # store[k]
       \/ ~(Members(warnedConfigIds') \subseteq Members(warnedConfigIds))

\* The call returns a value, now or after the write to the shared tier that
\* it is awaiting.
Succeeding(call) ==
    \/ call.pc = "redisset"
    \/ call.pc = "done" /\ call.out.kind = "value"

FileModules == {"hrkg", "Hrkg", "../etc"}
FileProfiles == {"extraction", "a/b"}
FileVersions == {1, 0, MAX_VERSION + 1}

FilePath == buildConfigFilePath(ConfigDir, "hrkg", "extraction", 1)

\* A place out of the configuration directory.
OutsidePath == "/etc/passwd"

\* fs.realpath: where the path leads once its symlinks are followed.
RealPath(fs, path) == IF StatusOf(fs, path) = "escape" THEN OutsidePath ELSE path

\* The LLMConfig parsed from a document.
LLMConfig(doc) == [kind |-> "config", doc |-> doc]

InitFile ==
    /\ FreshEngine
    /\ store = << >>
    /\ redisUrl = FALSE
    /\ files \in [{FilePath} -> FileStatus]

\* loadConfigFromFile up to the await of verifyPathContainmentAsync.
FileLoadStart(c, module, profile, version) ==
    /\ calls[c].pc = "idle"
    /\ \A d \in Calls : d < c => calls[d].pc = "done"
    /\ LET v == IF validateModule(module) # "ok" THEN validateModule(module)
                ELSE IF validateProfile(profile) # "ok" THEN validateProfile(profile)
                ELSE validateVersion(version)
           call == [calls[c] EXCEPT !.module = module, !.profile = profile,
                                    !.version = version]
       IN  calls' = [calls EXCEPT ![c] =
               IF v # "ok" THEN Finish(call, "", Thrown(v, ""))
               ELSE [call EXCEPT !.pc = "contain"]]
    /\ UNCHANGED <<files, cacheVars, cacheHistory, warnedConfigIds, warnLog, redisUrl, maxSize, retry, initCalls, inits, cacheAudit,
                   redisClient, redisAvailable, conn, initialized, initPc, store>>

\* The containment check made but its verdict ignored.
FileLoadContainedIgnored(c) ==
    /\ calls[c].pc = "contain"
    /\ LET call == calls[c]
           path == buildConfigFilePath(ConfigDir, call.module, call.profile, call.version)
       IN  calls' = [calls EXCEPT ![c] =
               [call EXCEPT !.pc = "read",
                            !.trace = Append(@, Event("realpath", RealPath(files, path)))]]
    /\ UNCHANGED <<files, cacheVars, cacheHistory, warnedConfigIds, warnLog, redisUrl, maxSize, retry, initCalls, inits, cacheAudit,
                   redisClient, redisAvailable, conn, initialized, initPc, store>>

\* verifyPathContainmentAsync returns or throws.
FileLoadContained(c) ==
    /\ calls[c].pc = "contain"
    /\ LET call == calls[c]
           path == buildConfigFilePath(ConfigDir, call.module, call.profile, call.version)
           c1 == [call EXCEPT !.trace = Append(@, Event("realpath", RealPath(files, path)))]
       IN  calls' = [calls EXCEPT ![c] =
               IF verifyPathContainmentAsync(files, path) # "ok"
               THEN Finish(c1, "", Thrown("SecurityError", ""))
               ELSE [c1 EXCEPT !.pc = "read"]]
    /\ UNCHANGED <<files, cacheVars, cacheHistory, warnedConfigIds, warnLog, redisUrl, maxSize, retry, initCalls, inits, cacheAudit,
                   redisClient, redisAvailable, conn, initialized, initPc, store>>

\* readFile returns or throws, and the rest of loadConfigFromFile runs.  A
\* path turned into a symlink since the check is read like any file: what it
\* leads to is anything (seen).
FileLoadRead(c, seen) ==
    /\ calls[c].pc = "read"
    /\ LET call == calls[c]
           path == buildConfigFilePath(ConfigDir, call.module, call.profile, call.version)
           st == StatusOf(files, path)
           r == loadConfigFromFile([q \in {path} |-> IF st = "escape" THEN seen ELSE st],
                                   ConfigDir, call.module, call.profile, call.version)
           c1 == [call EXCEPT !.trace = Append(@, Event("read", path))]
       IN  /\ seen # "escape"
           /\ st # "escape" => seen = st
           /\ calls' = [calls EXCEPT ![c] =
                 IF r.ok THEN Finish(c1, "file", Returned(LLMConfig(r.value)))
                 ELSE Finish(c1, "", Thrown(r.err, ""))]
    /\ UNCHANGED <<files, cacheVars, cacheHistory, warnedConfigIds, warnLog, redisUrl, maxSize, retry, initCalls, inits, cacheAudit,
                   redisClient, redisAvailable, conn, initialized, initPc, store>>

FileLoadChange == \E status \in FileStatus : FileChange(FilePath, status)

NextFile ==
    \/ \E c \in Calls, module \in FileModules, profile \in FileProfiles,
          version \in FileVersions : FileLoadStart(c, module, profile, version)
    \/ \E c \in Calls : FileLoadContained(c)
    \/ \E c \in Calls, seen \in FileStatus : FileLoadRead(c, seen)
    \/ FileLoadChange

SpecFile == InitFile /\ [][NextFile]_vars

\* The three checks of the arguments pass.
ArgumentsValid(call) ==
    /\ validateModule(call.module) = "ok"
    /\ validateProfile(call.profile) = "ok"
    /\ validateVersion(call.version) = "ok"

\* The containment check of the call has found the path inside the
\* configuration directory, at position i of the trace.
ContainedAt(trace, i) ==
    /\ trace[i][1] = "realpath"
    /\ StartsWith(trace[i][2], ConfigDir \o "/")

\* C30: loadConfigFromFile reads no file content unless the checks of the
\* module, the profile and the version and the containment check of the path
\* have passed for that call, the containment check before the read; a call
\* one of whose checks fails raises and has read nothing.
C30_ValidationBeforeRead ==
    \A c \in Calls :
        LET call == calls[c]
            trace == call.trace
            reads == {i \in 1..Len(trace) : trace[i][1] = "read"}
            checks == {i \in 1..Len(trace) : trace[i][1] = "realpath"}
        IN  /\ \A i \in reads :
                  /\ ArgumentsValid(call)
                  /\ \E j \in 1..(i - 1) : ContainedAt(trace, j)
            /\ (call.pc \notin {"idle"} /\ ~ArgumentsValid(call)) =>
                  /\ call.pc = "done"
                  /\ call.out.kind = "error"
                  /\ reads = {} /\ checks = {}
            /\ (\E j \in checks : ~ContainedAt(trace, j)) =>
                  /\ call.pc = "done"
                  /\ call.out.kind = "error"
                  /\ call.out.err = "SecurityError"
                  /\ reads = {}

\* A file read after its checks, and a call stopped by the containment check.
C30_Witness ==
    /\ calls[1].pc = "done"
    /\ calls[1].out.kind = "value"
    /\ calls[1].trace = <<Event("realpath", FilePath), Event("read", FilePath)>>
    /\ calls[2].pc = "done"
    /\ calls[2].trace = <<Event("realpath", OutsidePath)>>


(***************************************************************************)
(* The availability flag and the commands of loadConfig, checked under     *)
(* SpecLoad.                                                               *)
(***************************************************************************)
SharedKinds == {"exp_get", "redis_get", "redis_set"}

\* The commands a call has sent to the shared tier.
SharedEvents(trace) == SelectSeq(trace, LAMBDA e : e[1] \in SharedKinds)

\* C31: the availability flag follows the connection events (connect sets
\* it, close and error reset it); loadConfig sends a command to the shared
\* tier (experiment lookup, get, set) only in a step that finds the flag set,
\* and a call that has sent none is served by the local cache or the file
\* cascade, with the version and the forceRefresh of the request.
C31_AvailabilityGatesCommands ==
    [][/\ RedisConnectEvent => redisAvailable'
       /\ (RedisErrorEvent \/ RedisCloseEvent) => ~redisAvailable'
       /\ \A c \in Calls :
             /\ SharedEvents(calls'[c].trace) # SharedEvents(calls[c].trace) =>
                   redisAvailable /\ redisClient
             /\ (~redisAvailable /\ calls'[c] # calls[c]) =>
                   SharedEvents(calls'[c].trace) = SharedEvents(calls[c].trace)
             /\ (ReturnsNow(c) /\ SharedEvents(calls'[c].trace) = << >>) =>
                   /\ calls'[c].version = calls'[c].requestedVersion
                   /\ calls'[c].forceRefresh = calls'[c].callerForce
                   /\ calls'[c].out.kind = "value" => calls'[c].served \in {"local", "file"}
                   /\ store' = store]_vars

\* A call served by the files without a command while a client is held and
\* the flag is reset, the shared tier holding something.
C31_Witness ==
    /\ calls[1].pc = "done"
    /\ calls[1].served = "file"
    /\ SharedEvents(calls[1].trace) = << >>
    /\ redisClient
    /\ ~redisAvailable
    /\ calls[2].pc = "done"
    /\ calls[2].served = "local"


(***************************************************************************)
(* init() and a shared tier that cannot be reached, checked under          *)
(* SpecClose.                                                              *)
(***************************************************************************)
\* The step in which init() goes through without a shared tier: the connect
\* fails, the ping fails, or none is configured.
InitWithoutShared ==
    \/ InitConnectDone(FALSE)
    \/ InitPingDone(FALSE)
    \/ InitFileDone /\ ~redisUrl /\ BaseValid(files)

\* C32: a failed connection to the shared tier never fails init(): when the
\* connect or the ping fails, or no shared tier is configured, init()
\* completes with initialized set, the availability flag reset and no client
\* held, and the loadConfig calls made afterwards succeed from the files and
\* the local cache, without a command to the shared tier.
C32_InitSurvivesFailedConnect ==
    [][/\ InitWithoutShared =>
             /\ initialized'
             /\ ~redisAvailable'
             /\ ~redisClient'
             /\ initPc' = "idle"
             /\ inits'[Len(inits')] = "ok"
       /\ \A c \in Calls :
             (ReturnsNow(c) /\ calls'[c].initAtStart /\ ~redisClient) =>
                 /\ SharedEvents(calls'[c].trace) = << >>
                 /\ calls'[c].out.kind = "value"
                 /\ calls'[c].served \in {"local", "file"}]_vars

\* After an init() whose connect or ping failed, one call is served by the
\* files and the next by the local cache.
C32_Witness ==
    /\ redisUrl
    /\ inits = <<"ok">>
    /\ ~redisClient
    /\ conn
    /\ calls[1].pc = "done" /\ calls[1].served = "file" /\ calls[1].initAtStart
    /\ calls[2].pc = "done" /\ calls[2].served = "local"


(***************************************************************************)
(* The reconnection of the client.  When the connection is lost the client *)
(* asks retryStrategy, with the number of the attempt, how long to wait    *)
(* before it reconnects; null ends the reconnection.  The count starts     *)
(* again once a connection is made.                                        *)
(***************************************************************************)
\* The largest config.redisMaxRetries of the loaders modelled, and how often
\* one connection is lost.
MaxRetries == 12
MaxLosses == 3

\* null, returned to stop retrying
StopRetrying == 0 - 1

\* Math.min
Min(a, b) == IF a < b THEN a ELSE b

\* The strategy without its cap.
retryStrategyUncapped(times, maxRetries) ==
    IF times > maxRetries THEN StopRetrying ELSE times * 200

\* retryStrategy of the options the client is created with
retryStrategy(times, maxRetries) ==
    IF times > maxRetries THEN StopRetrying ELSE Min(times * 200, 2000)

RetryFrame ==
    UNCHANGED <<files, cacheVars, cacheHistory, engineVars, maxSize, initCalls, inits, cacheAudit>>

InitRetry ==
    /\ FreshEngine
    /\ store = << >>
    /\ redisUrl = TRUE
    /\ files = << >>

\* new LLMConfigLoader({redisMaxRetries})
RetryConfigure(maxRetries) ==
    /\ retry.state = "up"
    /\ retry.losses = 0
    /\ retry.maxRetries # maxRetries
    /\ retry.maxRetries = DEFAULT_REDIS_MAX_RETRIES
    /\ retry' = [retry EXCEPT !.maxRetries = maxRetries]
    /\ RetryFrame

\* The connection is lost.
RetryLost ==
    /\ retry.state = "up"
    /\ retry.losses < MaxLosses
    /\ retry' = [retry EXCEPT !.state = "down", !.losses = @ + 1, !.delays = << >>]
    /\ RetryFrame

\* The client asks the strategy and schedules a retry, or gives up.
RetryAsk ==
    /\ retry.state = "down"
    /\ LET times == retry.times + 1
           delay == retryStrategy(times, retry.maxRetries)
       IN  retry' = IF delay = StopRetrying
                    THEN [retry EXCEPT !.state = "end", !.times = times]
                    ELSE [retry EXCEPT !.state = "wait", !.times = times,
                                       !.delays = Append(@, delay)]
    /\ RetryFrame

\* The retry that was scheduled is made: it connects, or fails.
RetryDone(connected) ==
    /\ retry.state = "wait"
    /\ retry' = IF connected
                THEN [retry EXCEPT !.state = "up", !.times = 0]
                ELSE [retry EXCEPT !.state = "down"]
    /\ RetryFrame

NextRetry ==
    \/ \E maxRetries \in 0..MaxRetries : RetryConfigure(maxRetries)
    \/ RetryLost
    \/ RetryAsk
    \/ \E connected \in BOOLEAN : RetryDone(connected)

SpecRetry == InitRetry /\ [][NextRetry]_vars

\* C33: the reconnection is bounded, its backoff linear and capped: the
\* delay of attempt t is 200*t ms up to 2000 ms for t <= maxRetries, and no
\* retry is made for t > maxRetries; so the delays never decrease, never
\* exceed 2000 ms, and at most maxRetries retries are scheduled for one loss
\* of the connection.
C33_BoundedBackoff ==
    LET delays == retry.delays
    IN  /\ \A t \in 1..Len(delays) :
              /\ t <= retry.maxRetries
              /\ delays[t] = (IF 200 * t <= 2000 THEN 200 * t ELSE 2000)
              /\ delays[t] <= 2000
              /\ t > 1 => delays[t - 1] <= delays[t]
        /\ Len(delays) <= retry.maxRetries
        /\ retry.state = "end" =>
              /\ retry.times = retry.maxRetries + 1
              /\ Len(delays) = retry.maxRetries
        /\ retry.state \in {"wait", "down"} => retry.times = Len(delays)

\* The client has given up after twelve retries, the last ones at the cap.
C33_Witness ==
    /\ retry.state = "end"
    /\ Len(retry.delays) = 12
    /\ retry.delays[9] = 1800
    /\ retry.delays[12] = 2000


(***************************************************************************)
(* invalidate on a cache keyed by canonical identifiers.                   *)
(***************************************************************************)
IdKeySet ==
    {"default:hrkg:_:extraction:v1", "default:_default:_:_base:v1",
     "prd:hrkg:u1:extraction:v2", "default"}
IdPatternSet ==
    {"*", "default:*", "default:hrkg:*", "*:*:u1:*", "prd",
     "default:hrkg:_:extraction:v1:*"}

NextInvalidate ==
    \/ \E k \in IdKeySet : OpSet(k, "x")
    \/ \E k \in IdKeySet : OpGet(k)
    \/ \E pattern \in IdPatternSet : OpInvalidate(pattern)

SpecInvalidate == InitOps /\ [][NextInvalidate]_vars

\* The first n segments of the key, when it has more than n.
LeadingSegments(key, n) ==
    IF Len(Split(key)) > n THEN SubSeq(Split(key), 1, n) ELSE << >>

\* The keys of the cache that the step has removed.
RemovedKeys == CacheKeys(lru) \ CacheKeys(lru')

\* C34: a pattern of invalidate acts on a prefix of the segments of a key:
\* default:* removes the entries whose first segment is default and
\* default:hrkg:* those whose first two segments are default and hrkg,
\* however many segments follow; a pattern with more segments than a key
\* does not match it; invalidate removes exactly the matching entries,
\* returns their number and leaves the other entries and the counters of
\* hits and misses unchanged.
C34_PrefixOfSegments ==
    [][OpStep("invalidate") =>
          LET pattern == lastOp'.arg
          IN  /\ pattern = "default:*" =>
                    RemovedKeys = {k \in CacheKeys(lru) :
                                      LeadingSegments(k, 1) = <<"default">>}
              /\ pattern = "default:hrkg:*" =>
                    RemovedKeys = {k \in CacheKeys(lru) :
                                      LeadingSegments(k, 2) = <<"default", "hrkg">>}
              /\ \A k \in CacheKeys(lru) :
                    (pattern # "*" /\ Len(Split(pattern)) > Len(Split(k))) =>
                        k \notin RemovedKeys
              /\ RemovedKeys = {k \in CacheKeys(lru) :
                                   pattern = "*" \/ PrefixMatch(pattern, k)}
              /\ lastOp'.count = Cardinality(RemovedKeys)
              /\ lru' = SelectSeq(lru, LAMBDA e : e.key \notin RemovedKeys)
              /\ hits' = hits
              /\ misses' = misses]_vars

\* default:hrkg:* has removed one of three entries, after a hit.
C34_Witness ==
    /\ lastOp.op = "invalidate"
    /\ lastOp.arg = "default:hrkg:*"
    /\ lastOp.count = 1
    /\ CacheKeys(lru) = {"default:_default:_:_base:v1", "prd:hrkg:u1:extraction:v2"}
    /\ hits = 1

(***************************************************************************)
(* init() calls that overlap: a call may be made while others are          *)
(* suspended on the read of the base file, on connect() or on ping().      *)
(* Each call is an entry of initCalls: pc is where it is, loaded whether   *)
(* it has loaded the base file, made whether it has created a client.      *)
(***************************************************************************)
InitCall(pc) == [pc |-> pc, loaded |-> FALSE, made |-> FALSE, out |-> ""]

OverlapFrame ==
    UNCHANGED <<files, cacheVars, cacheHistory, warnedConfigIds, warnLog, redisUrl, maxSize,
                retry, inits, cacheAudit, initPc, store, calls>>

InitOverlap ==
    /\ FreshEngine
    /\ store = << >>
    /\ redisUrl \in BOOLEAN
    /\ files \in [{BasePath} -> {"ok", "absent", "badyaml"}]

\* init() is called: it returns at once when initialized is set, and goes
\* on to load the base file otherwise.
OverlapStart ==
    /\ Len(initCalls) < MaxInits
    /\ initCalls' = Append(initCalls,
                           IF initialized
                           THEN [InitCall("done") EXCEPT !.out = "noop"]
                           ELSE InitCall("file"))
    /\ UNCHANGED <<redisClient, redisAvailable, conn, initialized>>
    /\ OverlapFrame

\* The catch of initRedis, and the end of init() after it.
OverlapCaught(i) ==
    /\ redisClient' = FALSE
    /\ redisAvailable' = FALSE
    /\ initialized' = TRUE
    /\ initCalls' = [initCalls EXCEPT ![i].pc = "done", ![i].out = "ok"]
    /\ UNCHANGED conn

\* The load of the base file settles; init() goes on into initRedis, up to
\* the await of connect().
OverlapFileDone(i) ==
    /\ i \in 1..Len(initCalls)
    /\ initCalls[i].pc = "file"
    /\ LET r == loadConfigFromFile(files, ConfigDir, "_default", "_base", 1)
           call == [initCalls[i] EXCEPT !.loaded = TRUE]
       IN  IF ~r.ok
           THEN /\ initCalls' = [initCalls EXCEPT ![i] =
                                    [call EXCEPT !.pc = "done", !.out = r.err]]
                /\ UNCHANGED <<redisClient, redisAvailable, conn, initialized>>
           ELSE IF (redisAvailable /\ redisClient) \/ ~redisUrl
           THEN /\ initCalls' = [initCalls EXCEPT ![i] =
                                    [call EXCEPT !.pc = "done", !.out = "ok"]]
                /\ initialized' = TRUE
                /\ UNCHANGED <<redisClient, redisAvailable, conn>>
           ELSE /\ initCalls' = [initCalls EXCEPT ![i] =
                                    [call EXCEPT !.pc = "connect", !.made = TRUE]]
                /\ redisClient' = TRUE
                /\ conn' = TRUE
                /\ UNCHANGED <<redisAvailable, initialized>>
    /\ OverlapFrame

\* connect() settles; this.redisClient.ping() is then called on whatever
\* this.redisClient is by now: on null it throws into the catch.
OverlapConnectDone(i, ok) ==
    /\ i \in 1..Len(initCalls)
    /\ initCalls[i].pc = "connect"
    /\ IF ok /\ redisClient
       THEN /\ initCalls' = [initCalls EXCEPT ![i].pc = "ping"]
            /\ UNCHANGED <<redisClient, redisAvailable, conn, initialized>>
       ELSE OverlapCaught(i)
    /\ OverlapFrame

\* ping() settles.
OverlapPingDone(i, pong) ==
    /\ i \in 1..Len(initCalls)
    /\ initCalls[i].pc = "ping"
    /\ IF pong
       THEN /\ redisAvailable' = TRUE
            /\ initialized' = TRUE
            /\ initCalls' = [initCalls EXCEPT ![i].pc = "done", ![i].out = "ok"]
            /\ UNCHANGED <<redisClient, conn>>
       ELSE OverlapCaught(i)
    /\ OverlapFrame

NextOverlap ==
    \/ OverlapStart
    \/ \E i \in 1..MaxInits : OverlapFileDone(i)
    \/ \E i \in 1..MaxInits, ok \in BOOLEAN : OverlapConnectDone(i, ok)
    \/ \E i \in 1..MaxInits, pong \in BOOLEAN : OverlapPingDone(i, pong)
    \/ RedisConnectEvent
    \/ RedisErrorEvent
    \/ RedisCloseEvent

SpecOverlap == InitOverlap /\ [][NextOverlap]_vars

\* The calls that have done what the field names.
CallsThat(field) == {i \in 1..Len(initCalls) : initCalls[i][field]}

\* C35: init() is one-time under interleaving too: however two or more
\* init() calls overlap at their suspension points, the base file is
\* validated at most once, the connection to the shared tier attempted at
\* most once, and at most one client created.
C35_InitOnceInterleaved ==
    /\ Cardinality(CallsThat("loaded")) <= 1
    /\ Cardinality(CallsThat("made")) <= 1

\* What holds of overlapping calls: a call made once initialized is set does
\* nothing.
C35_InitOnceAfterSuccess ==
    [][(Len(initCalls') > Len(initCalls) /\ initialized) =>
             /\ initCalls'[Len(initCalls')].pc = "done"
             /\ ~initCalls'[Len(initCalls')].loaded
             /\ ~initCalls'[Len(initCalls')].made
             /\ UNCHANGED <<redisClient, redisAvailable, conn, initialized>>]_vars

\* Two overlapping calls have both finished, one client held.
C35_BothFinished ==
    /\ Len(initCalls) = 2
    /\ initCalls[1].pc = "done" /\ initCalls[1].out = "ok"
    /\ initCalls[2].pc = "done" /\ initCalls[2].out = "ok"
    /\ initCalls[2].loaded
    /\ redisClient

(***************************************************************************)
(* close() with work in flight: an initialized loader, calls of            *)
(* loadConfig, and a close() made while a call is suspended on the         *)
(* experiment lookup, a shared-tier command or a file read.  No call is    *)
(* started once close() has been called.                                   *)
(***************************************************************************)
\* close() has not been called yet.
NoCloseYet == \A i \in 1..Len(inits) : inits[i] \notin {"closing", "closed"}

ShutdownInit == CallerIdle /\ NoCloseYet /\ InitStart

ShutdownNext(c) ==
    /\ initPc = "idle"
    /\ NoCloseYet
    /\ \A d \in Calls : d < c => calls[d].pc = "done"
    /\ \E o \in CloseRequests : LoadStart(c, o)

NextShutdown ==
    \/ ShutdownInit
    \/ InitFileDone
    \/ \E ok \in BOOLEAN : InitConnectDone(ok)
    \/ \E pong \in BOOLEAN : InitPingDone(pong)
    \/ RedisConnectEvent
    \/ RedisErrorEvent
    \/ RedisCloseEvent
    \/ CloseStart
    \/ \E failed \in BOOLEAN : CloseQuitDone(failed)
    \/ \E c \in Calls : ShutdownNext(c)
    \/ \E c \in Calls, failed \in BOOLEAN : ExpDone(c, failed)
    \/ \E c \in Calls, failed \in BOOLEAN : RedisGetDone(c, failed)
    \/ \E c \in Calls : FileTry(c)
    \/ \E c \in Calls, failed \in BOOLEAN : RedisSetDone(c, failed)

SpecShutdown == InitClose /\ [][NextShutdown]_vars

\* The last close() has returned.
CloseReturned == inits # << >> /\ inits[Len(inits)] = "closed"

\* C36: once close() has returned, the local cache and the warned set stay
\* empty as long as no loadConfig is started after that close: a call that
\* was suspended when close() ran does not fill them when it resumes.
C36_CloseIsFinal ==
    CloseReturned => lru = << >> /\ warnedConfigIds = << >>

\* What holds after close(): with no call in flight both stay empty.
C36_CloseIsFinalWhenIdle ==
    [][(CloseReturned /\ CallerIdle /\ lru = << >> /\ warnedConfigIds = << >>) =>
           lru' = << >> /\ warnedConfigIds' = << >>]_vars

\* A call suspended at close() has returned a value after it.
C36_ResumedAfterClose ==
    /\ CloseReturned
    /\ \E c \in Calls : calls[c].pc = "done" /\ calls[c].out.kind = "value"
    /\ lru # << >>

(***************************************************************************)
(* The coordinate of a request and the content it resolves to: a loader    *)
(* without a shared tier over one tree of files, calls made one after the  *)
(* other for one profile and version, with every scope and userId.         *)
(***************************************************************************)
CoordinateRequests ==
    {Request(scope, module, userId, "extraction", NoVersion, FALSE) :
        scope \in {NotGiven, "_default", "prd"},
        module \in {"_default", "hrkg"},
        userId \in {NotGiven, "u1"}}

CoordinateTrees ==
    [UNION {RelevantPaths(o) : o \in CoordinateRequests} -> {"ok", "absent", "badyaml"}]

InitCoordinate ==
    /\ FreshEngine
    /\ store = << >>
    /\ redisUrl = FALSE
    /\ files \in CoordinateTrees

CoordinateNext(c) ==
    /\ CallerIdle
    /\ \A d \in Calls : d < c => calls[d].pc = "done"
    /\ \E o \in CoordinateRequests : LoadStart(c, o)

NextCoordinate ==
    \/ \E c \in Calls : CoordinateNext(c)
    \/ \E c \in Calls : ExpDone(c, FALSE)
    \/ \E c \in Calls : FileTry(c)

SpecCoordinate == InitCoordinate /\ [][NextCoordinate]_vars

\* Two finished calls for the same module, profile and version.
SameDocumentAsked(a, b) ==
    /\ a.pc = "done" /\ b.pc = "done"
    /\ a.module = b.module /\ a.profile = b.profile
    /\ a.requestedVersion = b.requestedVersion

\* The fields of a ResolvedConfig that are not its coordinate.
ContentOf(resolved) == resolved.doc

\* C37: what a resolution returns depends only on module, profile, version
\* and the files: two resolutions over the same files that differ only in
\* scope or userId both return or both fail, and return the same content.
C37_ContentIgnoresScopeAndUser ==
    \A c, d \in Calls :
        SameDocumentAsked(calls[c], calls[d]) =>
            /\ calls[c].out.kind = calls[d].out.kind
            /\ calls[c].out.err = calls[d].out.err
            /\ calls[c].out.kind = "value" =>
                 /\ ContentOf(calls[c].out.value) = ContentOf(calls[d].out.value)
                 /\ calls[c].out.value.module = calls[d].out.value.module
                 /\ calls[c].out.value.profile = calls[d].out.value.profile
                 /\ calls[c].out.value.version = calls[d].out.value.version

\* A user's request in scope prd and a request without either, both resolved
\* from the cascade to the file of the module, under different identifiers.
C37_Witness ==
    /\ SameDocumentAsked(calls[1], calls[2])
    /\ calls[1].scope = "prd" /\ calls[1].userId = "u1"
    /\ calls[2].scope = DEFAULT_SCOPE /\ calls[2].userId = "_"
    /\ calls[1].served = "file" /\ calls[2].served = "file"
    /\ calls[1].out.kind = "value" /\ calls[2].out.kind = "value"
    /\ calls[1].out.value.configId # calls[2].out.value.configId
    /\ calls[1].out.value.doc = buildConfigFilePath(ConfigDir, "hrkg", "extraction", 1)

(***************************************************************************)
(* The availability flag and the client, checked under SpecClose.          *)
(***************************************************************************)
\* C38: in every reachable state the availability flag is set only while a
\* shared-tier client is held, also after a failed connection attempt that
\* discarded its client and after close().
C38_AvailableImpliesClient == redisAvailable => redisClient

\* What holds of the flag: it is set only while a client object with the
\* loader's handlers exists, held or discarded, and it is the 'connect' event
\* of a discarded client that sets it with no client held.
C38_AvailableImpliesConnection ==
    [][/\ redisAvailable' => conn'
       /\ (redisAvailable' /\ ~redisClient') =>
              \/ redisAvailable /\ ~redisClient
              \/ ~redisClient /\ conn /\ ops' = ops + 1]_vars

\* The flag set with no client held, after init() has returned.
C38_AvailableWithoutClient ==
    /\ redisAvailable /\ ~redisClient
    /\ initialized
    /\ initPc = "idle"

(***************************************************************************)
(* The lifetime of an entry, checked under SpecTtl (the cache) and under   *)
(* SpecSame (the loader's local cache).                                    *)
(***************************************************************************)
\* The step is set(key, ...).
SetsKey(key) == OpStep("set") /\ lastOp'.arg = key

\* C39: a hit does not extend an entry's lifetime: get moves the entry to
\* most-recently-used and keeps its timestamp, the timestamp of an entry is
\* the time of the last set of its key, and no get returns a value more than
\* the TTL after that set.
C39_HitKeepsTimestamp ==
    [][/\ \A k \in TtlKeySet :
            /\ (CacheHas(lru', k) /\ ~SetsKey(k)) =>
                  /\ CacheHas(lru, k)
                  /\ CacheEntryOf(lru', k) = CacheEntryOf(lru, k)
            /\ (CacheHas(lru', k) /\ SetsKey(k)) =>
                  CacheEntryOf(lru', k).timestamp = now
       /\ (OpStep("get") /\ lastOp'.hit) =>
            /\ now - CacheEntryOf(lru, lastOp'.arg).timestamp <= TtlMs
            /\ lastOp'.value = CacheEntryOf(lru, lastOp'.arg).value
            /\ lru'[Len(lru')] = CacheEntryOf(lru, lastOp'.arg)]_vars

\* The same in the loader: a call is served from the local cache only by an
\* entry written at most the TTL earlier, and serving it leaves the entry's
\* timestamp as it was.
C39_ServedLocalWithinTtl ==
    [][\A c \in Calls :
          (ReturnsNow(c) /\ calls'[c].served = "local") =>
             /\ CacheHas(lru, calls'[c].configId)
             /\ now - CacheEntryOf(lru, calls'[c].configId).timestamp <= TtlMs
             /\ CacheEntryOf(lru', calls'[c].configId)
                  = CacheEntryOf(lru, calls'[c].configId)]_vars

\* The only key ever set was hit, and a get at time TtlMs + 1 finds it
\* expired: the hits have not postponed the expiry.
C39_Witness ==
    /\ now = TtlMs + 1
    /\ lastOp.op = "get" /\ lastOp.arg = "a"
    /\ ~lastOp.hit
    /\ lastOp.count = 1
    /\ hits >= 1
    /\ misses = 1
    /\ lru = << >>

(***************************************************************************)
(* The identifiers of the local cache: a loader with a shared tier that    *)
(* only loaders over the same files write, an experiment that is switched  *)
(* on or off, calls for versions 1 and 2 with and without a user, and      *)
(* local entries that outlive their TTL.                                   *)
(***************************************************************************)
KeyRequests ==
    {Request(NotGiven, "hrkg", NotGiven, "extraction", NoVersion, FALSE),
     Request(NotGiven, "hrkg", "u1", "extraction", NoVersion, FALSE),
     Request(NotGiven, "hrkg", NotGiven, "extraction", 2, FALSE)}

InitKeys ==
    /\ FreshEngine
    /\ redisUrl = TRUE
    /\ files \in LoadTrees
    /\ store = << >>

\* The experiment is switched on, for version 2.
KeysExperiment == SharedWrite(LoadExperimentKey, Directive(TRUE, 2))

KeysNext(c) ==
    /\ CallerIdle
    /\ \A d \in Calls : d < c => calls[d].pc = "done"
    /\ \E o \in KeyRequests : LoadStart(c, o)

NextKeys ==
    \/ LoadInit
    \/ InitFileDone
    \/ \E ok \in BOOLEAN : InitConnectDone(ok)
    \/ \E pong \in BOOLEAN : InitPingDone(pong)
    \/ SameElapse
    \/ KeysExperiment
    \/ \E c \in Calls : KeysNext(c)
    \/ \E c \in Calls, failed \in BOOLEAN : ExpDone(c, failed)
    \/ \E c \in Calls, failed \in BOOLEAN : RedisGetDone(c, failed)
    \/ \E c \in Calls : FileTry(c)
    \/ \E c \in Calls, failed \in BOOLEAN : RedisSetDone(c, failed)

SpecKeys == InitKeys /\ [][NextKeys]_vars

\* The number a string of decimal digits writes.
RECURSIVE DigitsValue(_)
DigitsValue(s) ==
    IF s = "" THEN 0
    ELSE 10 * DigitsValue(SubSeq(s, 1, Len(s) - 1))
            + (CHOOSE d \in 0..9 : ToString(d) = SubSeq(s, Len(s), Len(s)))

\* The coordinate an identifier scope:module:userId:profile:vN names.
CoordinateOf(configId) ==
    \* (the choice from a set of one evaluates the split once)
    CHOOSE at \in {CascadeStep(parts[1], parts[2], parts[3], parts[4],
                               DigitsValue(SubSeq(parts[5], 2, Len(parts[5])))) :
                      parts \in {Split(configId)}} : TRUE

\* The entry holds a ResolvedConfig whose coordinate is a candidate of the
\* cascade of the coordinate its key names.
KeyConsistent(entry) ==
    \E at \in {CoordinateOf(entry.key)} :
        \E steps \in {CandidatesOf(at.scope, at.module, at.userId, at.profile, at.version)},
           parsed \in {JsonParse(entry.value)} :
            /\ StepId(at) = entry.key
            /\ parsed.ok
            /\ parsed.json.kind = "config"
            /\ \E i \in 1..Len(steps) :
                  /\ parsed.json.configId = StepId(steps[i])
                  /\ parsed.json.scope = steps[i].scope
                  /\ parsed.json.module = steps[i].module
                  /\ parsed.json.profile = steps[i].profile
                  /\ parsed.json.version = steps[i].version

\* The experiment the call has met.
ExperimentMet(call) == ExperimentOf(call.expReply, ~call.expRead)

\* C40: with the shared tier written by loaders over the same files only,
\* every entry of the local cache holds a ResolvedConfig whose coordinate is a
\* candidate of the cascade of the coordinate its identifier names; and a
\* call whose version an experiment has overridden writes its result under
\* the identifier of the experiment's version, never under that of the
\* version requested.
C40_KeyConsistency ==
    /\ \A i \in 1..Len(lru) : KeyConsistent(lru[i])
    /\ \A c \in Calls :
          LET call == calls[c]
              written == EventsOf(call.trace, "lru_set")
          IN  (call.expChecked /\ call.expIssued /\ ExperimentMet(call).found) =>
                 \A i \in 1..Len(written) :
                    /\ written[i][2] = buildConfigId(call.scope, call.module, call.userId,
                                                     call.profile, ExperimentMet(call).version)
                    /\ ExperimentMet(call).version # call.requestedVersion =>
                          written[i][2] # buildConfigId(call.scope, call.module, call.userId,
                                                        call.profile, call.requestedVersion)

\* A user's call for version 1 that the experiment has moved to version 2 has
\* stored its result under the identifier of version 2, and the other call
\* has filled the local cache from the shared tier.
C40_Witness ==
    \E c, d \in Calls :
        /\ calls[c].pc = "done" /\ calls[c].served = "file"
        /\ calls[c].requestedVersion = 1
        /\ ExperimentMet(calls[c]).found
        /\ calls[c].out.value.version = 2
        /\ HasEvent(calls[c].trace, {"lru_set"})
        /\ calls[d].pc = "done" /\ calls[d].served = "shared"
        /\ lru # << >>

====
